---- MODULE Spec2Model ----
(***************************************************************************)
(* A model of the NextStyle runtime CSS-in-JS engine: the canonical        *)
(* serializer, the FNV-1a hasher, the rule text compiler, the per-scope    *)
(* rule store with its dedup policies, the relation selector builder and   *)
(* the process-wide PostCSS cache.                                         *)
(*                                                                         *)
(* Texts are TLA+ strings built exactly as the template literals of the    *)
(* source build them.  A JavaScript value is a record [t, s, o]: t is the  *)
(* type tag, s the text of a string or number, o the entries of an object  *)
(* (records [k, v] in insertion order) or the elements of an array.  A Map *)
(* is the sequence of its entries <<key, value>> in insertion order.       *)
(***************************************************************************)
EXTENDS Integers, Sequences, FiniteSets, TLC

(***************************************************************************)
(* Characters and strings                                                  *)
(***************************************************************************)
\* The characters with codes 32..95 and 97..126, in code order.
AsciiLow == " !\"#$%&'()*+,-./0123456789:;<=>?@ABCDEFGHIJKLMNOPQRSTUVWXYZ[\\]^_"
AsciiHigh == "abcdefghijklmnopqrstuvwxyz{|}~"

CharAt(s, i) == SubSeq(s, i, i)

\* The code of each character; the function is built entry by entry.
RECURSIVE CodesFrom(_, _, _)
CodesFrom(chars, i, base) ==
    IF i > Len(chars) THEN <<>>
    ELSE IF i = Len(chars) THEN CharAt(chars, i) :> (base + i)
    ELSE (CharAt(chars, i) :> (base + i)) @@ CodesFrom(chars, i + 1, base)

CodeTable == CodesFrom(AsciiLow, 1, 31) @@ CodesFrom(AsciiHigh, 1, 96)

\* String.prototype.charCodeAt, 1-based.
charCodeAt(s, i) == CodeTable[CharAt(s, i)]

IsUpper(c) == CodeTable[c] >= 65 /\ CodeTable[c] <= 90

\* String.prototype.toLowerCase on one character.
toLowerCase(c) == IF IsUpper(c) THEN CharAt(AsciiHigh, CodeTable[c] - 64) ELSE c

\* String.prototype.startsWith.
startsWith(s, p) == Len(s) >= Len(p) /\ SubSeq(s, 1, Len(p)) = p

\* String.prototype.includes.
includes(s, p) == \E i \in 1..(Len(s) - Len(p) + 1) : SubSeq(s, i, i + Len(p) - 1) = p

\* The order of Array.prototype.sort() without a comparator: by code units.
RECURSIVE StrLessFrom(_, _, _)
StrLessFrom(a, b, i) ==
    IF i > Len(b) THEN FALSE
    ELSE IF i > Len(a) THEN TRUE
    ELSE IF charCodeAt(a, i) # charCodeAt(b, i) THEN charCodeAt(a, i) < charCodeAt(b, i)
    ELSE StrLessFrom(a, b, i + 1)

StrLess(a, b) == StrLessFrom(a, b, 1)

\* Array.prototype.join.
RECURSIVE join(_, _)
join(parts, sep) ==
    IF Len(parts) = 0 THEN ""
    ELSE IF Len(parts) = 1 THEN parts[1]
    ELSE parts[1] \o sep \o join(Tail(parts), sep)

\* Array.prototype.sort() on strings.
RECURSIVE InsertSorted(_, _)
InsertSorted(k, sorted) ==
    IF Len(sorted) = 0 THEN <<k>>
    ELSE IF StrLess(k, sorted[1]) THEN <<k>> \o sorted
    ELSE <<sorted[1]>> \o InsertSorted(k, Tail(sorted))

RECURSIVE sort(_)
sort(keys) == IF Len(keys) = 0 THEN <<>> ELSE InsertSorted(keys[1], sort(Tail(keys)))

(***************************************************************************)
(* JavaScript values                                                       *)
(***************************************************************************)
Str(s) == [t |-> "string", s |-> s, o |-> <<>>]
Num(s) == [t |-> "number", s |-> s, o |-> <<>>]
Null == [t |-> "null", s |-> "", o |-> <<>>]
Undefined == [t |-> "undefined", s |-> "", o |-> <<>>]
Obj(entries) == [t |-> "object", s |-> "", o |-> entries]
Arr(elems) == [t |-> "array", s |-> "", o |-> elems]
P(k, v) == [k |-> k, v |-> v]

\* value == null
IsNullish(v) == v.t \in {"null", "undefined"}

\* typeof value === "object"
IsObjectType(v) == v.t \in {"object", "array", "null"}

\* !value
IsFalsy(v) ==
    \/ IsNullish(v)
    \/ v.t = "string" /\ v.s = ""
    \/ v.t = "number" /\ v.s \in {"0", "NaN"}

\* The own enumerable keys of a value, in for-in / Object.keys order: the keys
\* of an object in insertion order, the indices of a string or an array.
Keys(v) ==
    IF v.t = "object" THEN [i \in 1..Len(v.o) |-> v.o[i].k]
    ELSE IF v.t = "string" THEN [i \in 1..Len(v.s) |-> ToString(i - 1)]
    ELSE IF v.t = "array" THEN [i \in 1..Len(v.o) |-> ToString(i - 1)]
    ELSE <<>>

HasKey(v, k) == \E i \in 1..Len(Keys(v)) : Keys(v)[i] = k

\* value[ k ]
Get(v, k) ==
    IF ~HasKey(v, k) THEN Undefined
    ELSE LET i == CHOOSE j \in 1..Len(Keys(v)) : Keys(v)[j] = k
         IN  IF v.t = "object" THEN v.o[i].v
             ELSE IF v.t = "string" THEN Str(CharAt(v.s, i))
             ELSE v.o[i]

\* `${ value }`
RECURSIVE ToText(_)
ToText(v) ==
    IF v.t \in {"string", "number"} THEN v.s
    ELSE IF v.t = "null" THEN "null"
    ELSE IF v.t = "object" THEN "[object Object]"
    ELSE IF v.t = "array"
    THEN join([i \in 1..Len(v.o) |-> IF IsNullish(v.o[i]) THEN "" ELSE ToText(v.o[i])], ",")
    ELSE "undefined"

\* { ...prev, ...style } on two objects: a key of prev keeps its place and takes
\* the value style gives it; the keys only style has follow in style's order.
RECURSIVE Assign(_, _)
Assign(entries, more) ==
    IF Len(more) = 0 THEN entries
    ELSE LET e == more[1]
             placed ==
                 IF \E i \in 1..Len(entries) : entries[i].k = e.k
                 THEN [i \in 1..Len(entries) |->
                          IF entries[i].k = e.k THEN e ELSE entries[i]]
                 ELSE Append(entries, e)
         IN  Assign(placed, Tail(more))

\* A spread that merges the nested descriptions of a key both objects have.
Spread_deep(prev, style) ==
    Obj(Assign(prev.o,
               [n \in 1..Len(style.o) |->
                   LET e == style.o[n]
                       old == Get(prev, e.k)
                   IN  IF IsObjectType(e.v) /\ IsObjectType(old)
                       THEN P(e.k, Obj(Assign(old.o, e.v.o)))
                       ELSE e]))

\* A spread that adds the entries of style after those of prev, duplicates kept.
Spread_concat(prev, style) == Obj(prev.o \o style.o)

Spread(prev, style) == Obj(Assign(prev.o, style.o))

(***************************************************************************)
(* Canonical serializer                                                    *)
(***************************************************************************)
\* JSON.stringify of a string: quoted, with the quote and the backslash escaped.
RECURSIVE Escape(_)
Escape(s) ==
    IF Len(s) = 0 THEN ""
    ELSE LET c == CharAt(s, 1)
         IN  (IF c = "\"" \/ c = "\\" THEN "\\" \o c ELSE c) \o Escape(SubSeq(s, 2, Len(s)))

\* JSON.stringify of a value that is null or not an object.
JSONstringify(v) ==
    IF v.t = "string" THEN "\"" \o Escape(v.s) \o "\""
    ELSE IF v.t = "number" THEN v.s
    ELSE IF v.t = "null" THEN "null"
    ELSE "undefined"

\* The serializer without the sort: the keys in insertion order.
RECURSIVE stableStringify_unsorted(_)
stableStringify_unsorted(value) ==
    IF IsNullish(value) \/ ~IsObjectType(value) THEN JSONstringify(value)
    ELSE IF value.t = "array"
    THEN "[" \o join([i \in 1..Len(value.o) |-> stableStringify_unsorted(value.o[i])], ",") \o "]"
    ELSE LET keys == Keys(value)
         IN  "{" \o join([i \in 1..Len(keys) |->
                            "\"" \o keys[i] \o "\":" \o stableStringify_unsorted(Get(value, keys[i]))],
                         ",") \o "}"

\* The serializer sorting the elements of an array as it sorts keys.
RECURSIVE stableStringify_sortsArrays(_)
stableStringify_sortsArrays(value) ==
    IF IsNullish(value) \/ ~IsObjectType(value) THEN JSONstringify(value)
    ELSE IF value.t = "array"
    THEN "[" \o join(sort([i \in 1..Len(value.o) |-> stableStringify_sortsArrays(value.o[i])]),
                     ",") \o "]"
    ELSE LET keys == sort(Keys(value))
         IN  "{" \o join([i \in 1..Len(keys) |->
                            "\"" \o keys[i] \o "\":" \o stableStringify_sortsArrays(Get(value, keys[i]))],
                         ",") \o "}"

RECURSIVE stableStringify(_)
stableStringify(value) ==
    IF IsNullish(value) \/ ~IsObjectType(value) THEN JSONstringify(value)
    ELSE IF value.t = "array"
    THEN "[" \o join([i \in 1..Len(value.o) |-> stableStringify(value.o[i])], ",") \o "]"
    ELSE LET keys == sort(Keys(value))
         IN  "{" \o join([i \in 1..Len(keys) |->
                            "\"" \o keys[i] \o "\":" \o stableStringify(Get(value, keys[i]))],
                         ",") \o "}"

(***************************************************************************)
(* Deterministic hasher: 64-bit FNV-1a on eight 8-bit limbs, least         *)
(* significant first.                                                      *)
(***************************************************************************)
\* 0xcbf29ce484222325
OffsetBasis == <<37, 35, 34, 132, 228, 156, 242, 203>>

RECURSIVE XorBits(_, _, _)
XorBits(a, b, n) ==
    IF n = 0 THEN 0
    ELSE (((a % 2) + (b % 2)) % 2) + 2 * XorBits(a \div 2, b \div 2, n - 1)

\* hash ^= BigInt( code ), for a 16-bit code unit.
XorCode(h, code) ==
    <<XorBits(h[1], code % 256, 8), XorBits(h[2], code \div 256, 8),
      h[3], h[4], h[5], h[6], h[7], h[8]>>

\* hash *= 0x100000001b3; hash &= 0xffffffffffffffff.  The prime is 2^40 + 435:
\* limb i of the product is 435 * h[i] + h[i - 5] plus the carry of limb i - 1.
MulPrime(h) ==
    LET t1 == 435 * h[1]
        t2 == (435 * h[2]) + (t1 \div 256)
        t3 == (435 * h[3]) + (t2 \div 256)
        t4 == (435 * h[4]) + (t3 \div 256)
        t5 == (435 * h[5]) + (t4 \div 256)
        t6 == (435 * h[6]) + h[1] + (t5 \div 256)
        t7 == (435 * h[7]) + h[2] + (t6 \div 256)
        t8 == (435 * h[8]) + h[3] + (t7 \div 256)
    IN  <<t1 % 256, t2 % 256, t3 % 256, t4 % 256, t5 % 256, t6 % 256, t7 % 256, t8 % 256>>

\* The loop over seed positions lo..hi, from the hash h.  The range is split in
\* halves, and the left half's hash is evaluated (the test of its length) before
\* the right half starts, so the evaluation depth stays logarithmic in the seed
\* length.
RECURSIVE HashRange(_, _, _, _)
HashRange(seed, lo, hi, h) ==
    IF lo > hi THEN h
    ELSE IF lo = hi THEN MulPrime(XorCode(h, charCodeAt(seed, lo)))
    ELSE LET mid == (lo + hi) \div 2
             left == HashRange(seed, lo, mid, h)
         IN  IF Len(left) = 8 THEN HashRange(seed, mid + 1, hi, left) ELSE left

HashFrom(seed, i, h) == HashRange(seed, i, Len(seed), h)

\* BigInt.prototype.toString( 36 ): long division by 36, most significant limb
\* first.
Digits36 == "0123456789abcdefghijklmnopqrstuvwxyz"

\* The quotient (limbs 1..8) and the remainder (element 9) of h divided by 36.
DivMod36(h) ==
    LET r8 == h[8]
        r7 == ((r8 % 36) * 256) + h[7]
        r6 == ((r7 % 36) * 256) + h[6]
        r5 == ((r6 % 36) * 256) + h[5]
        r4 == ((r5 % 36) * 256) + h[4]
        r3 == ((r4 % 36) * 256) + h[3]
        r2 == ((r3 % 36) * 256) + h[2]
        r1 == ((r2 % 36) * 256) + h[1]
    IN  <<r1 \div 36, r2 \div 36, r3 \div 36, r4 \div 36,
          r5 \div 36, r6 \div 36, r7 \div 36, r8 \div 36, r1 % 36>>

IsZero(h) == \A i \in 1..8 : h[i] = 0

RECURSIVE ToBase36(_)
ToBase36(h) ==
    IF IsZero(h) THEN ""
    ELSE LET qr == DivMod36(h)
         IN  ToBase36(SubSeq(qr, 1, 8)) \o CharAt(Digits36, qr[9] + 1)

toString36(h) == IF IsZero(h) THEN "0" ELSE ToBase36(h)

\* slice( -n ): the last n characters.
slice0_tail(s, n) == SubSeq(s, IF Len(s) < n THEN 1 ELSE Len(s) - n + 1, Len(s))

\* String.prototype.slice( 0, n )
slice0(s, n) == SubSeq(s, 1, IF Len(s) < n THEN Len(s) ELSE n)

createHashName(seed) == slice0(toString36(HashFrom(seed, 1, OffsetBasis)), 9)

(***************************************************************************)
(* Rule text compiler                                                      *)
(***************************************************************************)
\* prop.replace( /[A-Z]/g, m => `-${ m.toLowerCase() }` )
RECURSIVE toKebabCase(_)
toKebabCase(prop) ==
    IF Len(prop) = 0 THEN ""
    ELSE LET c == CharAt(prop, 1)
         IN  (IF IsUpper(c) THEN "-" \o toLowerCase(c) ELSE c)
                 \o toKebabCase(SubSeq(prop, 2, Len(prop)))

MEDIA_MAP ==
    << P("_sm", "(min-width:640px)"),
       P("_md", "(min-width:768px)"),
       P("_lg", "(min-width:1024px)"),
       P("_xl", "(min-width:1280px)"),
       P("_xxl", "(min-width:1536px)") >>

PSEUDO_KEYS == <<"_hover", "_focus", "_active">>

\* An absent media condition (undefined) is the empty string: the code only ever
\* tests a media condition for truthiness, and both are falsy.
NoMedia == ""

Ctx(selector, media) == [selector |-> selector, media |-> media]

\* mergeMedia that only ever keeps the enclosing condition.
mergeMedia_parent(parent, current) == parent

\* mergeMedia that drops the enclosing condition.
mergeMedia_current(parent, current) == current

mergeMedia(parent, current) ==
    IF parent = "" THEN current
    ELSE IF current = "" THEN parent
    ELSE parent \o " and " \o current

\* The declarations loop: one `prop:value` per own key whose value is a scalar
\* and whose name does not start with "_".
\* The declarations loop without the test for null and undefined.
RECURSIVE Declarations_keepsNull(_, _)
Declarations_keepsNull(style, keys) ==
    IF Len(keys) = 0 THEN <<>>
    ELSE LET key == keys[1]
             value == Get(style, key)
             rest == Declarations_keepsNull(style, Tail(keys))
         IN  IF (IsObjectType(value) /\ ~IsNullish(value)) \/ startsWith(key, "_")
             THEN rest
             ELSE <<toKebabCase(key) \o ":" \o ToText(value)>> \o rest

RECURSIVE Declarations(_, _)
Declarations(style, keys) ==
    IF Len(keys) = 0 THEN <<>>
    ELSE LET key == keys[1]
             value == Get(style, key)
             rest == Declarations(style, Tail(keys))
         IN  IF IsNullish(value) \/ IsObjectType(value) \/ startsWith(key, "_")
             THEN rest
             ELSE <<toKebabCase(key) \o ":" \o ToText(value)>> \o rest

\* serializeNested that compiles the value of a state key flat: its scalars only.
RECURSIVE serializeNested_flat(_, _)
serializeNested_flat(style, ctx) ==
    LET declarations == Declarations(style, Keys(style))
        rule == ctx.selector \o "{" \o join(declarations, ";") \o "}"
        own ==
            IF Len(declarations) # 0
            THEN IF ctx.media # "" THEN "@media " \o ctx.media \o "{" \o rule \o "}" ELSE rule
            ELSE ""
        pseudos ==
            [i \in 1..Len(PSEUDO_KEYS) |->
                LET pseudo == PSEUDO_KEYS[i]
                    value == Get(style, pseudo)
                    inner == Declarations(value, Keys(value))
                    innerRule == ctx.selector \o ":" \o SubSeq(pseudo, 2, Len(pseudo))
                                    \o "{" \o join(inner, ";") \o "}"
                IN  IF IsFalsy(value) \/ Len(inner) = 0 THEN ""
                    ELSE IF ctx.media # "" THEN "@media " \o ctx.media \o "{" \o innerRule \o "}"
                    ELSE innerRule]
        medias ==
            [i \in 1..Len(MEDIA_MAP) |->
                LET value == Get(style, MEDIA_MAP[i].k)
                IN  IF IsFalsy(value) THEN ""
                    ELSE serializeNested_flat(value,
                            Ctx(ctx.selector, mergeMedia(ctx.media, MEDIA_MAP[i].v)))]
    IN  own \o join(pseudos, "") \o join(medias, "")

\* serializeNested that compiles the nested keys in the key order of the
\* description instead of two fixed loops.
RECURSIVE serializeNested_keyOrder(_, _)
serializeNested_keyOrder(style, ctx) ==
    LET declarations == Declarations(style, Keys(style))
        rule == ctx.selector \o "{" \o join(declarations, ";") \o "}"
        own ==
            IF Len(declarations) # 0
            THEN IF ctx.media # "" THEN "@media " \o ctx.media \o "{" \o rule \o "}" ELSE rule
            ELSE ""
        nested ==
            [i \in 1..Len(Keys(style)) |->
                LET key == Keys(style)[i]
                    value == Get(style, key)
                IN  IF IsFalsy(value) THEN ""
                    ELSE IF \E n \in 1..Len(PSEUDO_KEYS) : PSEUDO_KEYS[n] = key
                    THEN serializeNested_keyOrder(value,
                            Ctx(ctx.selector \o ":" \o SubSeq(key, 2, Len(key)), ctx.media))
                    ELSE IF \E n \in 1..Len(MEDIA_MAP) : MEDIA_MAP[n].k = key
                    THEN serializeNested_keyOrder(value,
                            Ctx(ctx.selector,
                                mergeMedia(ctx.media,
                                           MEDIA_MAP[CHOOSE n \in 1..Len(MEDIA_MAP) :
                                                        MEDIA_MAP[n].k = key].v)))
                    ELSE ""]
    IN  own \o join(nested, "")

RECURSIVE serializeNested(_, _)
serializeNested(style, ctx) ==
    LET declarations == Declarations(style, Keys(style))
        rule == ctx.selector \o "{" \o join(declarations, ";") \o "}"
        own ==
            IF Len(declarations) # 0
            THEN IF ctx.media # "" THEN "@media " \o ctx.media \o "{" \o rule \o "}" ELSE rule
            ELSE ""
        pseudos ==
            [i \in 1..Len(PSEUDO_KEYS) |->
                LET pseudo == PSEUDO_KEYS[i]
                    value == Get(style, pseudo)
                IN  IF IsFalsy(value) THEN ""
                    ELSE serializeNested(value,
                            Ctx(ctx.selector \o ":" \o SubSeq(pseudo, 2, Len(pseudo)), ctx.media))]
        medias ==
            [i \in 1..Len(MEDIA_MAP) |->
                LET value == Get(style, MEDIA_MAP[i].k)
                IN  IF IsFalsy(value) THEN ""
                    ELSE serializeNested(value,
                            Ctx(ctx.selector, mergeMedia(ctx.media, MEDIA_MAP[i].v)))]
    IN  own \o join(pseudos, "") \o join(medias, "")

(***************************************************************************)
(* Map< string, V >: the entries <<key, value>> in insertion order         *)
(***************************************************************************)
MapHas(m, k) == \E i \in 1..Len(m) : m[i][1] = k

\* Map.prototype.get; absent keys are only read where the code tests the result.
MapGet(m, k) == m[CHOOSE i \in 1..Len(m) : m[i][1] = k][2]

\* Map.prototype.set: a present key keeps its position.
MapSet(m, k, v) ==
    IF MapHas(m, k)
    THEN [i \in 1..Len(m) |-> IF m[i][1] = k THEN <<k, v>> ELSE m[i]]
    ELSE Append(m, <<k, v>>)

\* Map.prototype.delete.
MapDelete(m, k) == SelectSeq(m, LAMBDA e : e[1] # k)

\* Map.prototype.values, in insertion order.
MapValues(m) == [i \in 1..Len(m) |-> m[i][2]]

MapKeys(m) == [i \in 1..Len(m) |-> m[i][1]]

(***************************************************************************)
(* PostCSS with autoprefixer, and its process-wide cache                   *)
(***************************************************************************)
\* The declaration the processor prefixes in this model, and the prefix it adds.
PrefixedDecl == "user-select:"
VendorPrefix == "-webkit-"

FirstIndex(text, pat, from) ==
    IF \E i \in from..(Len(text) - Len(pat) + 1) : SubSeq(text, i, i + Len(pat) - 1) = pat
    THEN CHOOSE i \in from..(Len(text) - Len(pat) + 1) :
            /\ SubSeq(text, i, i + Len(pat) - 1) = pat
            /\ \A j \in from..(i - 1) : SubSeq(text, j, j + Len(pat) - 1) # pat
    ELSE 0

\* processor.process( cssText ).css: the text as given, with a vendor-prefixed
\* copy put before every declaration that needs one.
RECURSIVE process(_)
process(cssText) ==
    LET i == FirstIndex(cssText, PrefixedDecl, 1)
    IN  IF i = 0 THEN cssText
        ELSE LET semi == FirstIndex(cssText, ";", i)
                 brace == FirstIndex(cssText, "}", i)
                 j == IF semi # 0 /\ (brace = 0 \/ semi < brace) THEN semi
                      ELSE IF brace # 0 THEN brace
                      ELSE Len(cssText) + 1
                 decl == SubSeq(cssText, i, j - 1)
             IN  SubSeq(cssText, 1, i - 1) \o VendorPrefix \o decl \o ";" \o decl
                     \o process(SubSeq(cssText, j, Len(cssText)))

\* postcssTransform: the result, the cache afterwards, and the texts the
\* processor was run on (none on a cache hit).
postcssTransform(cache, cssText) ==
    IF MapHas(cache, cssText) /\ MapGet(cache, cssText) # ""
    THEN [css |-> MapGet(cache, cssText), cache |-> cache, ran |-> <<>>]
    ELSE [css |-> process(cssText),
          cache |-> MapSet(cache, cssText, process(cssText)),
          ran |-> <<cssText>>]

(***************************************************************************)
(* NextStyle: one scope is [prefix, rules, globalStore]; a call works on   *)
(* the scope together with the process-wide cache and yields the scope and *)
(* the cache afterwards, its return value, the texts the processor ran on  *)
(* and the rule keys it compiled.                                          *)
(***************************************************************************)
Call(prefix, rules, globalStore, cache) ==
    [prefix |-> prefix, rules |-> rules, globalStore |-> globalStore, cache |-> cache,
     ret |-> Undefined, ran |-> <<>>, compiled |-> <<>>]

\* this.rules.set( key, postcssTransform( raw ) ) for a rule compiled under key.
StoreRule(st, key, raw) ==
    LET t == postcssTransform(st.cache, raw)
    IN  [st EXCEPT !.rules = MapSet(@, key, t.css),
                   !.cache = t.cache,
                   !.ran = @ \o t.ran,
                   !.compiled = Append(@, key)]

\* css with the rules kept as a list: every call appends the rule it compiled.
css_appends(st, style) ==
    LET className == st.prefix \o "_" \o createHashName(stableStringify(style))
        t == postcssTransform(st.cache,
                              serializeNested(style, Ctx("." \o className, NoMedia)))
    IN  [st EXCEPT !.rules = Append(@, <<"class:" \o className, t.css>>),
                   !.cache = t.cache,
                   !.ran = @ \o t.ran,
                   !.compiled = Append(@, "class:" \o className),
                   !.ret = Str(className)]

\* css without the has-guard: every call compiles, transforms and stores.
css_recompiles(st, style) ==
    LET className == st.prefix \o "_" \o createHashName(stableStringify(style))
    IN  [StoreRule(st, "class:" \o className,
                   serializeNested(style, Ctx("." \o className, NoMedia)))
            EXCEPT !.ret = Str(className)]

\* A description with its keys in sorted order at every level.
RECURSIVE SortedKeys(_)
SortedKeys(v) ==
    IF v.t # "object" THEN v
    ELSE LET keys == sort(Keys(v))
         IN  Obj([n \in 1..Len(keys) |-> P(keys[n], SortedKeys(Get(v, keys[n])))])

\* css that compiles the description in sorted key order.
css_sorted(st, style) ==
    LET className == st.prefix \o "_" \o createHashName(stableStringify(style))
        key == "class:" \o className
        stored ==
            IF ~MapHas(st.rules, key)
            THEN StoreRule(st, key,
                           serializeNested(SortedKeys(style), Ctx("." \o className, NoMedia)))
            ELSE st
    IN  [stored EXCEPT !.ret = Str(className)]

\* css that stores no rule whose compiled text is empty.
css_skipsEmpty(st, style) ==
    LET className == st.prefix \o "_" \o createHashName(stableStringify(style))
        key == "class:" \o className
        raw == serializeNested(style, Ctx("." \o className, NoMedia))
        stored == IF ~MapHas(st.rules, key) /\ raw # "" THEN StoreRule(st, key, raw) ELSE st
    IN  [stored EXCEPT !.ret = Str(className)]

\* css that detects a name taken by another rule text and resolves it with a
\* name of its own.
css_resolves(st, style) ==
    LET className == st.prefix \o "_" \o createHashName(stableStringify(style))
        key == "class:" \o className
        t == postcssTransform(st.cache, serializeNested(style, Ctx("." \o className, NoMedia)))
        taken == MapHas(st.rules, key) /\ MapGet(st.rules, key) # t.css
        name == IF taken THEN className \o "_1" ELSE className
        stored ==
            IF ~MapHas(st.rules, "class:" \o name)
            THEN StoreRule(st, "class:" \o name, serializeNested(style, Ctx("." \o name, NoMedia)))
            ELSE st
    IN  [stored EXCEPT !.ret = Str(name)]

css(st, style) ==
    LET seed == stableStringify(style)
        hash == createHashName(seed)
        className == st.prefix \o "_" \o hash
        key == "class:" \o className
        stored ==
            IF ~MapHas(st.rules, key)
            THEN StoreRule(st, key, serializeNested(style, Ctx("." \o className, NoMedia)))
            ELSE st
    IN  [stored EXCEPT !.ret = Str(className)]

\* global without the merge: the first definition of a selector stays.
global_first(st, selector, style) ==
    LET key == "global:" \o selector
    IN  IF ~MapHas(st.rules, key)
        THEN [StoreRule(st, key, serializeNested(style, Ctx(selector, NoMedia)))
                 EXCEPT !.ret = Undefined]
        ELSE [st EXCEPT !.ret = Undefined]

\* global without the delete: a re-defined selector keeps its position.
global_inplace(st, selector, style) ==
    LET key == "global:" \o selector
        prev == IF MapHas(st.globalStore, key) THEN MapGet(st.globalStore, key) ELSE Obj(<<>>)
        merged == Spread(prev, style)
        kept == [st EXCEPT !.globalStore = MapSet(@, key, merged)]
    IN  [StoreRule(kept, key, serializeNested(merged, Ctx(selector, NoMedia)))
            EXCEPT !.ret = Undefined]

global(st, selector, style) ==
    LET key == "global:" \o selector
        prev == IF MapHas(st.globalStore, key) THEN MapGet(st.globalStore, key) ELSE Obj(<<>>)
        merged == Spread(prev, style)
        kept == [st EXCEPT !.globalStore = MapSet(@, key, merged)]
        raw == serializeNested(merged, Ctx(selector, NoMedia))
        dropped == IF MapHas(kept.rules, key)
                   THEN [kept EXCEPT !.rules = MapDelete(@, key)]
                   ELSE kept
    IN  [StoreRule(dropped, key, raw) EXCEPT !.ret = Undefined]

\* root whose first definition stays.
root_first(st, style) == global_first(st, ":root", style)

root(st, style) == global(st, ":root", style)

ResetHtmlBody ==
    Obj(<<P("maxWidth", Str("100vw")), P("overflowX", Str("hidden"))>>)
ResetBody ==
    Obj(<<P("color", Str("black")), P("background", Str("white")),
          P("MozOsxFontSmoothing", Str("grayscale")),
          P("WebkitFontSmoothing", Str("antialiased")),
          P("fontFamily", Str("Arial, Helvetica, sans-serif"))>>)
ResetAll ==
    Obj(<<P("margin", Num("0")), P("padding", Num("0")), P("boxSizing", Str("border-box"))>>)
ResetAnchor ==
    Obj(<<P("color", Str("inherit")), P("textDecoration", Str("none"))>>)

\* The value `this` of a scope.
This == [t |-> "this", s |-> "", o |-> <<>>]

\* resetStyle that returns nothing.
resetStyle_void(st) ==
    LET s1 == global(st, "html,body", ResetHtmlBody)
        s2 == global(s1, "body", ResetBody)
        s3 == global(s2, "*,*::before,*::after", ResetAll)
        s4 == global(s3, "a", ResetAnchor)
    IN  [s4 EXCEPT !.ret = Undefined]

\* resetStyle that empties the stores before it writes its four rules.
resetStyle_clears(st) ==
    LET s0 == [st EXCEPT !.rules = <<>>, !.globalStore = <<>>]
        s1 == global(s0, "html,body", ResetHtmlBody)
        s2 == global(s1, "body", ResetBody)
        s3 == global(s2, "*,*::before,*::after", ResetAll)
        s4 == global(s3, "a", ResetAnchor)
    IN  [s4 EXCEPT !.ret = This]

resetStyle(st) ==
    LET s1 == global(st, "html,body", ResetHtmlBody)
        s2 == global(s1, "body", ResetBody)
        s3 == global(s2, "*,*::before,*::after", ResetAll)
        s4 == global(s3, "a", ResetAnchor)
    IN  [s4 EXCEPT !.ret = This]

\* The body of a @keyframes rule: `${ step }{ ${ declarations.join( ";" ) } }`
\* per step, every own key of the frame a declaration.
FrameDeclarations(frame) ==
    [i \in 1..Len(Keys(frame)) |->
        toKebabCase(Keys(frame)[i]) \o ":" \o ToText(Get(frame, Keys(frame)[i]))]

RECURSIVE KeyframesBody(_, _)
KeyframesBody(frames, steps) ==
    IF Len(steps) = 0 THEN ""
    ELSE steps[1] \o "{ " \o join(FrameDeclarations(Get(frames, steps[1])), ";") \o " }"
            \o KeyframesBody(frames, Tail(steps))

\* keyframes keyed by the key order of the frames instead of their content.
keyframes_unsorted(st, frames) ==
    LET name == st.prefix \o "_" \o createHashName(stableStringify_unsorted(frames))
        key == "@keyframes:" \o name
        body == KeyframesBody(frames, Keys(frames))
        stored ==
            IF ~MapHas(st.rules, key)
            THEN StoreRule(st, key, "@keyframes " \o name \o "{ " \o body \o " }")
            ELSE st
    IN  [stored EXCEPT !.ret = Str(name)]

\* keyframes that keeps its rule under the key css uses for the same name.
keyframes_sharesKey(st, frames) ==
    LET name == st.prefix \o "_" \o createHashName(stableStringify(frames))
        key == "class:" \o name
        body == KeyframesBody(frames, Keys(frames))
        stored ==
            IF ~MapHas(st.rules, key)
            THEN StoreRule(st, key, "@keyframes " \o name \o "{ " \o body \o " }")
            ELSE st
    IN  [stored EXCEPT !.ret = Str(name)]

keyframes(st, frames) ==
    LET seed == stableStringify(frames)
        hash == createHashName(seed)
        name == st.prefix \o "_" \o hash
        key == "@keyframes:" \o name
        body == KeyframesBody(frames, Keys(frames))
        stored ==
            IF ~MapHas(st.rules, key)
            THEN StoreRule(st, key, "@keyframes " \o name \o "{ " \o body \o " }")
            ELSE st
    IN  [stored EXCEPT !.ret = Str(name)]

fontFace(st, font) ==
    LET seed == stableStringify(font)
        hash == createHashName(seed)
        key == "@font-face:" \o hash
        stored ==
            IF ~MapHas(st.rules, key)
            THEN StoreRule(st, key, "@font-face{ " \o join(FrameDeclarations(font), ";") \o " }")
            ELSE st
    IN  [stored EXCEPT !.ret = Undefined]

\* for ( const rule of this.rules.values() ) cssText += rule + "\n"
RECURSIVE ConcatRules(_)
ConcatRules(texts) ==
    IF Len(texts) = 0 THEN "" ELSE texts[1] \o "\n" \o ConcatRules(Tail(texts))

\* toTextCss without the size test: an empty store gives the empty string.
toTextCss_string(rules) == Str(ConcatRules(MapValues(rules)))

\* toTextCss with the newline as a separator instead of a terminator.
toTextCss_joined(rules) ==
    IF Len(rules) = 0 THEN Null ELSE Str(join(MapValues(rules), "\n"))

toTextCss(rules) ==
    IF Len(rules) = 0 THEN Null ELSE Str(ConcatRules(MapValues(rules)))

\* createElement( "style", { children: cssText } )
createElement(tag, children) == [t |-> "element", s |-> children, o |-> <<tag>>]

\* StyleProvider without the size test: an empty store gives an empty element.
StyleProvider_always(rules) == createElement("style", ConcatRules(MapValues(rules)))

StyleProvider(rules) ==
    IF Len(rules) = 0 THEN Null ELSE createElement("style", ConcatRules(MapValues(rules)))

(***************************************************************************)
(* RelationBuilder: the value (ns, source, pseudo); an absent pseudo state *)
(* (undefined) is the empty string, which the code tests for truthiness.   *)
(***************************************************************************)
RelationBuilder(ns, source, pseudo) == [ns |-> ns, source |-> source, pseudo |-> pseudo]

when(ns, source) == RelationBuilder(ns, source, "")

\* hover() that adds its state to the state the builder has.
hover_appends(b) ==
    RelationBuilder(b.ns, b.source, IF b.pseudo = "" THEN "hover" ELSE b.pseudo \o ":hover")

hover(b) == RelationBuilder(b.ns, b.source, "hover")
focus(b) == RelationBuilder(b.ns, b.source, "focus")
active(b) == RelationBuilder(b.ns, b.source, "active")

\* emit that leaves the chosen state out of the selector.
emit_stateless(b, st, combinator, target, style) ==
    global(st, "." \o b.source \o combinator \o "." \o target, style)

emit(b, st, combinator, target, style) ==
    LET pseudo == IF b.pseudo # "" THEN ":" \o b.pseudo ELSE ""
        selector == "." \o b.source \o pseudo \o combinator \o "." \o target
    IN  global(st, selector, style)

\* A method that changes the receiver to what it returns and returns the receiver.
Received_returned(b, r) == IF r = Undefined THEN b ELSE r

\* The receiver b after a method of the builder that returned r: no method
\* assigns to a field of this.
Received(b, r) == b

adjacent(b, st, target, style) == emit(b, st, "+", target, style)
child(b, st, target, style) == emit(b, st, ">", target, style)
sibling(b, st, target, style) == emit(b, st, "~", target, style)
descendant(b, st, target, style) == emit(b, st, " ", target, style)

(***************************************************************************)
(* The state machine                                                       *)
(***************************************************************************)
VARIABLES
    rules,          \* rules[i]: the Map< string, string > of scope i
    globalStore,    \* globalStore[i]: the Map< string, NextStyleProperties > of scope i
    postcssCache,   \* the module's Map< string, string >
    builder,        \* the RelationBuilder the caller holds, or NoBuilder
    stored,         \* the receiver of the last builder call, as the call left it
    log,            \* the calls made, in order: [op, scope, args, value]
    processRuns,    \* how often the processor ran on each raw text
    compileRuns,    \* compileRuns[<<i, key>>]: how often scope i compiled and stored key
    firstInserted,  \* firstInserted[i]: the keys of scope i, by their first insertion
    lastInserted,   \* lastInserted[i]: the keys of scope i, by their latest insertion
    arg,            \* the input of a pure function under check, or NoArg
    out             \* its output, or NoOut

vars == <<rules, globalStore, postcssCache, builder, stored, log, processRuns, compileRuns,
          firstInserted, lastInserted, arg, out>>

\* The calls of one run.
MaxOps == 3

Scopes == {"A", "B"}

\* new NextStyle() and new NextStyle( "home" ).
Prefix(i) == IF i = "A" THEN "next" ELSE "home"

NoBuilder == RelationBuilder("", "", "")
NoArg == [f |-> "", style |-> Undefined, style2 |-> Undefined, ctx |-> Ctx("", NoMedia)]
NoOut == Undefined
NoCall == [op |-> "", scope |-> "", args |-> <<>>, value |-> Undefined]

\* The last call and what it returned.
ret == IF Len(log) = 0 THEN NoCall ELSE log[Len(log)]

\* The inputs of the runs.
S1 == Obj(<<P("color", Str("red")),
            P("_md", Obj(<<P("color", Str("blue")), P("margin", Num("0"))>>))>>)
S2 == Obj(<<P("_md", Obj(<<P("margin", Num("0")), P("color", Str("blue"))>>)),
            P("color", Str("red"))>>)
S3 == Obj(<<>>)
Styles == {S1, S2, S3}

G1 == Obj(<<P("margin", Num("0")), P("color", Str("red"))>>)
G2 == Obj(<<P("padding", Num("0")), P("color", Str("blue"))>>)
GlobalStyles == {G1, G2}
Selectors == {"body"}

R1 == Obj(<<P("--c", Str("#fff"))>>)
R2 == Obj(<<P("--r", Str("12px"))>>)
RootStyles == {R1, R2}

T1 == Obj(<<P("userSelect", Str("none"))>>)
RelationStyles == {T1}
Sources == {"a"}
Targets == {"b"}

K1 == Obj(<<P("from", Obj(<<P("opacity", Num("0"))>>)), P("to", Obj(<<P("opacity", Num("1"))>>))>>)
K2 == Obj(<<P("to", Obj(<<P("opacity", Num("1"))>>)), P("from", Obj(<<P("opacity", Num("0"))>>))>>)
Frames == {K1, K2}

F1 == Obj(<<P("fontFamily", Str("Kanit")), P("src", Str("url(/k.woff2)"))>>)
F2 == Obj(<<P("src", Str("url(/k.woff2)")), P("fontFamily", Str("Kanit"))>>)
Fonts == {F1, F2}

InitStore ==
    /\ rules = [i \in Scopes |-> <<>>]
    /\ globalStore = [i \in Scopes |-> <<>>]
    /\ postcssCache = <<>>
    /\ builder = NoBuilder
    /\ stored = NoBuilder
    /\ log = <<>>
    /\ processRuns = <<>>
    /\ compileRuns = <<>>
    /\ firstInserted = [i \in Scopes |-> <<>>]
    /\ lastInserted = [i \in Scopes |-> <<>>]

Init == InitStore /\ arg = NoArg /\ out = NoOut

\* A history count: one more under each key of ks.
RECURSIVE Counted(_, _)
Counted(m, ks) ==
    IF Len(ks) = 0 THEN m
    ELSE LET k == ks[1]
             one == IF k \in DOMAIN m THEN [m EXCEPT ![k] = @ + 1] ELSE m @@ (k :> 1)
         IN  Counted(one, Tail(ks))

\* The count under key k so far.
Runs(m, k) == IF k \in DOMAIN m THEN m[k] ELSE 0

Member(seq, k) == \E n \in 1..Len(seq) : seq[n] = k

\* The keys by first insertion, after the keys ks were stored.
RECURSIVE FirstOrder(_, _)
FirstOrder(seq, ks) ==
    IF Len(ks) = 0 THEN seq
    ELSE FirstOrder(IF Member(seq, ks[1]) THEN seq ELSE Append(seq, ks[1]), Tail(ks))

\* The keys by latest insertion, after the keys ks were stored.
RECURSIVE LastOrder(_, _)
LastOrder(seq, ks) ==
    IF Len(ks) = 0 THEN seq
    ELSE LastOrder(Append(SelectSeq(seq, LAMBDA k : k # ks[1]), ks[1]), Tail(ks))

\* The scope i and the cache, as a call finds them.
Enter(i) == Call(Prefix(i), rules[i], globalStore[i], postcssCache)

\* The effects of a call when the rules are one Map shared by all scopes.
Leave_shared(i, op, args, r) ==
    /\ rules' = [j \in Scopes |-> r.rules]
    /\ globalStore' = [globalStore EXCEPT ![i] = r.globalStore]
    /\ postcssCache' = r.cache
    /\ log' = Append(log, [op |-> op, scope |-> i, args |-> args, value |-> r.ret])
    /\ processRuns' = Counted(processRuns, r.ran)
    /\ compileRuns' = Counted(compileRuns, [n \in 1..Len(r.compiled) |-> <<i, r.compiled[n]>>])
    /\ firstInserted' = [firstInserted EXCEPT ![i] = FirstOrder(@, r.compiled)]
    /\ lastInserted' = [lastInserted EXCEPT ![i] = LastOrder(@, r.compiled)]
    /\ UNCHANGED <<arg, out>>

\* The effects of a call op( args ) on scope i that ended as r.
Leave(i, op, args, r) ==
    /\ rules' = [rules EXCEPT ![i] = r.rules]
    /\ globalStore' = [globalStore EXCEPT ![i] = r.globalStore]
    /\ postcssCache' = r.cache
    /\ log' = Append(log, [op |-> op, scope |-> i, args |-> args, value |-> r.ret])
    /\ processRuns' = Counted(processRuns, r.ran)
    /\ compileRuns' = Counted(compileRuns, [n \in 1..Len(r.compiled) |-> <<i, r.compiled[n]>>])
    /\ firstInserted' = [firstInserted EXCEPT ![i] = FirstOrder(@, r.compiled)]
    /\ lastInserted' = [lastInserted EXCEPT ![i] = LastOrder(@, r.compiled)]
    /\ UNCHANGED <<arg, out>>

\* A call op( args ) on scope i that changes no store and returns value.
Read(i, op, args, value) ==
    /\ log' = Append(log, [op |-> op, scope |-> i, args |-> args, value |-> value])
    /\ UNCHANGED <<rules, globalStore, postcssCache, processRuns, compileRuns,
                   firstInserted, lastInserted, arg, out>>

Css(i, style) ==
    /\ Len(log) < MaxOps
    /\ Leave(i, "css", <<style>>, css(Enter(i), style))
    /\ UNCHANGED <<builder, stored>>

Global(i, selector, style) ==
    /\ Len(log) < MaxOps
    /\ Leave(i, "global", <<Str(selector), style>>, global(Enter(i), selector, style))
    /\ UNCHANGED <<builder, stored>>

Root(i, style) ==
    /\ Len(log) < MaxOps
    /\ Leave(i, "root", <<style>>, root(Enter(i), style))
    /\ UNCHANGED <<builder, stored>>

ResetStyle(i) ==
    /\ Len(log) < MaxOps
    /\ Leave(i, "resetStyle", <<>>, resetStyle(Enter(i)))
    /\ UNCHANGED <<builder, stored>>

Keyframes(i, frames) ==
    /\ Len(log) < MaxOps
    /\ Leave(i, "keyframes", <<frames>>, keyframes(Enter(i), frames))
    /\ UNCHANGED <<builder, stored>>

FontFace(i, font) ==
    /\ Len(log) < MaxOps
    /\ Leave(i, "fontFace", <<font>>, fontFace(Enter(i), font))
    /\ UNCHANGED <<builder, stored>>

ToTextCss(i) ==
    /\ Len(log) < MaxOps
    /\ Read(i, "toTextCss", <<>>, toTextCss(rules[i]))
    /\ UNCHANGED <<builder, stored>>

StyleProviderCall(i) ==
    /\ Len(log) < MaxOps
    /\ Read(i, "StyleProvider", <<>>, StyleProvider(rules[i]))
    /\ UNCHANGED <<builder, stored>>

\* when( source ): the caller holds the new builder.
When(i, source) ==
    /\ Len(log) < MaxOps
    /\ Read(i, "when", <<Str(source)>>, Undefined)
    /\ builder' = when(i, source)
    /\ UNCHANGED stored

\* hover(), focus(), active() on the held builder: the caller holds the result,
\* and the receiver is left as the method leaves it.
Hover ==
    /\ Len(log) < MaxOps
    /\ builder # NoBuilder
    /\ Read(builder.ns, "hover", <<>>, Undefined)
    /\ builder' = hover(builder)
    /\ stored' = Received(builder, builder')

Focus ==
    /\ Len(log) < MaxOps
    /\ builder # NoBuilder
    /\ Read(builder.ns, "focus", <<>>, Undefined)
    /\ builder' = focus(builder)
    /\ stored' = Received(builder, builder')

Active ==
    /\ Len(log) < MaxOps
    /\ builder # NoBuilder
    /\ Read(builder.ns, "active", <<>>, Undefined)
    /\ builder' = active(builder)
    /\ stored' = Received(builder, builder')

Adjacent(target, style) ==
    /\ Len(log) < MaxOps
    /\ builder # NoBuilder
    /\ Leave(builder.ns, "adjacent", <<Str(target), style>>,
             adjacent(builder, Enter(builder.ns), target, style))
    /\ builder' = Received(builder, Undefined)
    /\ stored' = builder'

Child(target, style) ==
    /\ Len(log) < MaxOps
    /\ builder # NoBuilder
    /\ Leave(builder.ns, "child", <<Str(target), style>>,
             child(builder, Enter(builder.ns), target, style))
    /\ builder' = Received(builder, Undefined)
    /\ stored' = builder'

Sibling(target, style) ==
    /\ Len(log) < MaxOps
    /\ builder # NoBuilder
    /\ Leave(builder.ns, "sibling", <<Str(target), style>>,
             sibling(builder, Enter(builder.ns), target, style))
    /\ builder' = Received(builder, Undefined)
    /\ stored' = builder'

Descendant(target, style) ==
    /\ Len(log) < MaxOps
    /\ builder # NoBuilder
    /\ Leave(builder.ns, "descendant", <<Str(target), style>>,
             descendant(builder, Enter(builder.ns), target, style))
    /\ builder' = Received(builder, Undefined)
    /\ stored' = builder'

\* One scope, every operation.
Next ==
    \/ \E style \in Styles : Css("A", style)
    \/ \E selector \in Selectors, style \in GlobalStyles : Global("A", selector, style)
    \/ \E style \in RootStyles : Root("A", style)
    \/ ResetStyle("A")
    \/ \E frames \in Frames : Keyframes("A", frames)
    \/ \E font \in Fonts : FontFace("A", font)
    \/ ToTextCss("A")
    \/ StyleProviderCall("A")
    \/ \E source \in Sources : When("A", source)
    \/ Hover
    \/ Focus
    \/ Active
    \/ \E target \in Targets, style \in RelationStyles : Adjacent(target, style)
    \/ \E target \in Targets, style \in RelationStyles : Child(target, style)
    \/ \E target \in Targets, style \in RelationStyles : Sibling(target, style)
    \/ \E target \in Targets, style \in RelationStyles : Descendant(target, style)

Spec == Init /\ [][Next]_vars

\* Two scopes in one process, one input per operation.
TwoStyles == {S1, S3}

NextTwo ==
    \/ \E i \in Scopes, style \in TwoStyles : Css(i, style)
    \/ \E i \in Scopes : Global(i, "body", G1)
    \/ \E i \in Scopes : Root(i, R1)
    \/ \E i \in Scopes : ResetStyle(i)
    \/ \E i \in Scopes : Keyframes(i, K1)
    \/ \E i \in Scopes : FontFace(i, F1)
    \/ \E i \in Scopes : ToTextCss(i)
    \/ \E i \in Scopes : When(i, "a")
    \/ Hover
    \/ Adjacent("b", T1)

SpecTwo == Init /\ [][NextTwo]_vars

(***************************************************************************)
(* Pure functions on drawn inputs                                          *)
(***************************************************************************)
\* Every description with the keys and values of v, in every key order at every
\* nesting level.
RECURSIVE Perms(_)
RECURSIVE Arrangements(_)
Arrangements(entries) ==
    IF entries = {} THEN {<<>>}
    ELSE UNION {{<<P(e.k, v)>> \o rest : v \in Perms(e.v), rest \in Arrangements(entries \ {e})}
                    : e \in entries}

Perms(v) ==
    IF v.t # "object" THEN {v}
    ELSE {Obj(entries) : entries \in Arrangements({v.o[i] : i \in 1..Len(v.o)})}

\* The same keys with the same values at every nesting level, in any key order.
RECURSIVE SameContent(_, _)
SameContent(a, b) ==
    IF a.t # "object" \/ b.t # "object" THEN a = b
    ELSE /\ {a.o[i].k : i \in 1..Len(a.o)} = {b.o[i].k : i \in 1..Len(b.o)}
         /\ \A i \in 1..Len(a.o) : SameContent(a.o[i].v, Get(b, a.o[i].k))

B1 == Obj(<<P("color", Str("red")), P("margin", Num("0")),
            P("_hover", Obj(<<P("color", Str("blue")), P("opacity", Num("0.5"))>>))>>)
B2 == Obj(<<P("color", Str("red")), P("margin", Num("0")),
            P("_hover", Obj(<<P("color", Str("blue")), P("opacity", Num("0.6"))>>))>>)
PermStyles == Perms(B1) \cup Perms(B2)

PairInputs == {[f |-> "css", style |-> d1, style2 |-> d2, ctx |-> Ctx("", NoMedia)]
                  : d1 \in Perms(B1), d2 \in PermStyles}

\* A description with top-level scalars and one breakpoint key, the breakpoint
\* key first or last.
BreakpointStyle(top, b, nested, first) ==
    Obj(IF first THEN <<P(b, Obj(nested))>> \o top ELSE top \o <<P(b, Obj(nested))>>)

TopDeclarations ==
    { <<P("color", Str("red"))>>,
      <<P("color", Str("red")), P("fontSize", Str("16px"))>> }
NestedDeclarations == { <<P("color", Str("blue"))>> }
CompileSelectors == {".next_x", "body"}

CompileInputs ==
    {[f |-> "serializeNested",
      style |-> BreakpointStyle(top, MEDIA_MAP[b].k, nested, first),
      style2 |-> Undefined,
      ctx |-> Ctx(selector, NoMedia)]
        : top \in TopDeclarations, b \in 1..Len(MEDIA_MAP), nested \in NestedDeclarations,
          first \in BOOLEAN, selector \in CompileSelectors}

\* A description with one state key holding one breakpoint key holding scalars.
ComposedDeclarations ==
    { <<P("opacity", Num("0.5"))>>,
      <<P("opacity", Num("0.5")), P("backgroundColor", Str("red"))>> }

ComposeInputs ==
    {[f |-> "compose",
      style |-> Obj(<<P(PSEUDO_KEYS[p], Obj(<<P(MEDIA_MAP[b].k, Obj(decls))>>))>>),
      style2 |-> Undefined,
      ctx |-> Ctx(selector, NoMedia)]
        : p \in 1..Len(PSEUDO_KEYS), b \in 1..Len(MEDIA_MAP),
          decls \in ComposedDeclarations, selector \in CompileSelectors}

\* Two descriptions for one global selector: the first has a nested key, the
\* second overrides a scalar, adds one, and has a nested key or none.
NestedKeys == {"_hover", "_md"}
GlobalFirsts ==
    {Obj(<<P("color", Str("red")), P("margin", Num("0")),
           P(k, Obj(<<P("textDecoration", Str("underline")), P("opacity", Num("1"))>>))>>)
        : k \in NestedKeys}
GlobalSeconds ==
    {Obj(<<P("padding", Num("0")), P("color", Str("green"))>>)}
    \cup {Obj(<<P(k, Obj(<<P("opacity", Num("0.5"))>>)), P("padding", Num("0")),
                P("color", Str("green"))>>)
             : k \in NestedKeys}
GlobalSelectors == {"body", ".card"}

GlobalPairInputs ==
    {[f |-> "global", style |-> d1, style2 |-> d2, ctx |-> Ctx(selector, NoMedia)]
        : d1 \in GlobalFirsts, d2 \in GlobalSeconds, selector \in GlobalSelectors}

\* Descriptions and frames to name; the seeds of {color: "bf5h0"} and of
\* {to: {color: "cpe4r"}} hash to values below 36^8.
NameColors == {"red", "blue", "bf5h0"}
FrameColors == {"red", "cpe4r"}
NameInputs ==
    {[f |-> "name",
      style |-> Obj(<<P("color", Str(c))>>),
      style2 |-> Obj(<<P("to", Obj(<<P("color", Str(k))>>))>>),
      ctx |-> Ctx("", NoMedia)]
        : c \in NameColors, k \in FrameColors}
    \cup {[f |-> "name",
           style |-> Obj(<<P("to", Obj(<<P("color", Str(k))>>))>>),
           style2 |-> Obj(<<P("to", Obj(<<P("color", Str(k))>>))>>),
           ctx |-> Ctx("", NoMedia)]
             : k \in FrameColors}

\* Entries the compiler has no rule for: a null or undefined value, a
\* description or an array under a key that is no state or breakpoint key, and
\* a key that starts with "_" and is no state or breakpoint key.
SkippedEntries ==
    { P("margin", Null),
      P("margin", Undefined),
      P("font", Obj(<<P("outline", Str("none"))>>)),
      P("font", Arr(<<Str("none")>>)),
      P("_first", Str("none")),
      P("_first", Obj(<<P("outline", Str("none"))>>)) }

\* A description with such an entry (first, last, or inside the value of
\* _hover) and, as style2, the description without it.
SkipHover == <<P("opacity", Num("0.5"))>>
SkipBase == Obj(<<P("color", Str("red")), P("_hover", Obj(SkipHover))>>)
SkipPlaces == {"first", "last", "nested"}
WithEntry(e, place) ==
    CASE place = "first" -> Obj(<<e>> \o SkipBase.o)
      [] place = "last" -> Obj(SkipBase.o \o <<e>>)
      [] place = "nested" ->
            Obj(<<P("color", Str("red")), P("_hover", Obj(<<e>> \o SkipHover))>>)

SkipInputs ==
    {[f |-> "skip", style |-> WithEntry(e, place), style2 |-> SkipBase,
      ctx |-> Ctx(selector, NoMedia)]
        : e \in SkippedEntries, place \in SkipPlaces, selector \in CompileSelectors}

\* Descriptions with a scalar, state keys and breakpoint keys, any of them
\* present, in every key order.
NestedEntry(k) == P(k, Obj(<<P("color", Str(SubSeq(k, 2, Len(k))))>>))
OrderPools ==
    { {P("color", Str("red"))} \cup {NestedEntry(k) : k \in {"_hover", "_focus", "_active"}},
      {NestedEntry(k) : k \in {"_sm", "_md", "_lg", "_xl", "_xxl"}},
      {P("color", Str("red"))} \cup {NestedEntry(k) : k \in {"_active", "_hover", "_xl", "_sm"}} }
OrderInputs ==
    {[f |-> "order", style |-> Obj(entries), style2 |-> Undefined, ctx |-> Ctx(".c", NoMedia)]
        : entries \in UNION {UNION {Arrangements(sub) : sub \in SUBSET pool}
                                : pool \in OrderPools}}

\* A breakpoint key whose value holds scalars, or a breakpoint key, or a state
\* key; compiled with no media condition in effect or with one.
MediaDeclarations == <<P("color", Str("blue"))>>
MediaInner ==
    {Obj(MediaDeclarations)}
    \cup {Obj(<<P(MEDIA_MAP[b].k, Obj(MediaDeclarations))>>) : b \in 1..Len(MEDIA_MAP)}
    \cup {Obj(<<P(PSEUDO_KEYS[p], Obj(MediaDeclarations))>>) : p \in 1..Len(PSEUDO_KEYS)}
MediaInEffect == {NoMedia, "print"}
MediaInputs ==
    {[f |-> "media", style |-> Obj(<<P(MEDIA_MAP[b].k, inner)>>), style2 |-> Undefined,
      ctx |-> Ctx(".c", media)]
        : b \in 1..Len(MEDIA_MAP), inner \in MediaInner, media \in MediaInEffect}

\* Values given to the serializer: nested objects in every key order, arrays
\* of a number and of objects, and objects holding such arrays.
SerializedObject == Obj(<<P("b", Num("1")), P("a", Obj(<<P("d", Str("x")), P("c", Num("2"))>>))>>)
SerializedElements ==
    {Num("1"), Obj(<<P("b", Num("1")), P("a", Num("2"))>>), Obj(<<P("a", Num("2")), P("b", Num("1"))>>)}
SerializedArrays == {Arr(<<x, y>>) : x, y \in SerializedElements}
SerializedValues ==
    Perms(SerializedObject) \cup SerializedArrays
        \cup {Obj(<<P("k", a), P("j", Num("0"))>>) : a \in SerializedArrays}
        \cup {Obj(<<P("j", Num("0")), P("k", a)>>) : a \in SerializedArrays}

StringifyInputs ==
    {[f |-> "stringify", style |-> v1, style2 |-> v2, ctx |-> Ctx("", NoMedia)]
        : v1, v2 \in SerializedValues}

\* A caller that derives builders from one it keeps.
BuilderInputs ==
    {[f |-> "builder", style |-> style, style2 |-> Undefined, ctx |-> Ctx(source, NoMedia)]
        : style \in RelationStyles, source \in Sources}

\* Descriptions in pairs, among them two pairs whose serializations have
\* 64-bit hashes with the same first nine base-36 digits.
CollidingColors == {"f78d2", "mqopb", "asfjq", "q160a"}
CollisionInputs ==
    {[f |-> "collision",
      style |-> Obj(<<P("color", Str(c1))>>),
      style2 |-> Obj(<<P("color", Str(c2))>>),
      ctx |-> Ctx("", NoMedia)]
        : c1, c2 \in CollidingColors}

\* Descriptions with no scalar at any level.
EmptyStyles ==
    {Obj(<<>>),
     Obj(<<P("_hover", Obj(<<>>))>>),
     Obj(<<P("_md", Obj(<<>>))>>),
     Obj(<<P("_md", Obj(<<P("_hover", Obj(<<>>))>>))>>)}
EmptyInputs ==
    {[f |-> "empty", style |-> d, style2 |-> d, ctx |-> Ctx("", NoMedia)] : d \in EmptyStyles}

\* The input families css is applied to twice.
CssKinds == {"css", "collision", "empty"}

\* The input families serializeNested is applied to.
CompileKinds == {"serializeNested", "compose", "skip", "order", "media"}

FnInputs == PairInputs \cup CompileInputs \cup ComposeInputs \cup GlobalPairInputs
               \cup NameInputs \cup SkipInputs \cup OrderInputs
               \cup MediaInputs \cup StringifyInputs
               \cup BuilderInputs \cup CollisionInputs \cup EmptyInputs

InitFn == InitStore /\ arg \in FnInputs /\ out = NoOut

\* css( style ) and then css( style2 ) on one fresh scope.
CssFirst == arg.f \in CssKinds /\ Len(log) = 0 /\ Css("A", arg.style)
CssSecond == arg.f \in CssKinds /\ Len(log) = 1 /\ Css("A", arg.style2)

\* global( selector, style ) and then global( selector, style2 ) on one fresh scope.
GlobalFirst == arg.f = "global" /\ Len(log) = 0 /\ Global("A", arg.ctx.selector, arg.style)
GlobalSecond == arg.f = "global" /\ Len(log) = 1 /\ Global("A", arg.ctx.selector, arg.style2)

\* css( style ) on a scope and then keyframes( style2 ) on a scope.
NameCss == \E i \in Scopes : arg.f = "name" /\ Len(log) = 0 /\ Css(i, arg.style)
NameKeyframes == \E i \in Scopes : arg.f = "name" /\ Len(log) = 1 /\ Keyframes(i, arg.style2)

\* Selectors made of the name css returned.
NameSelectors(name) == {name, "." \o name, "class:" \o name, "@keyframes:" \o name}

\* global( selector, G1 ) after the two, on the scope of the first, for a
\* selector made of the name it returned.
NameGlobal ==
    /\ arg.f = "name"
    /\ Len(log) = 2
    /\ \E selector \in NameSelectors(log[1].value.s) : Global(log[1].scope, selector, G1)

\* serializeNested( style, ctx )
Compile ==
    /\ arg.f \in CompileKinds
    /\ out = NoOut
    /\ out' = Str(serializeNested(arg.style, arg.ctx))
    /\ UNCHANGED <<rules, globalStore, postcssCache, builder, stored, log, processRuns,
                   compileRuns, firstInserted, lastInserted, arg>>

\* stableStringify( style ) and stableStringify( style2 )
Stringify ==
    /\ arg.f = "stringify"
    /\ out = NoOut
    /\ out' = Arr(<<Str(stableStringify(arg.style)), Str(stableStringify(arg.style2))>>)
    /\ UNCHANGED <<rules, globalStore, postcssCache, builder, stored, log, processRuns,
                   compileRuns, firstInserted, lastInserted, arg>>

\* when( source ), then state calls and terminal actions, each on the builder
\* the last call returned or on the receiver of the last call.
BuilderWhen == arg.f = "builder" /\ Len(log) = 0 /\ When("A", arg.ctx.selector)
BuilderState == arg.f = "builder" /\ (Hover \/ Focus \/ Active)
BuilderTerminal ==
    /\ arg.f = "builder"
    /\ \E target \in Targets :
          \/ Adjacent(target, arg.style) \/ Child(target, arg.style)
          \/ Sibling(target, arg.style) \/ Descendant(target, arg.style)

\* The caller takes the receiver of the last call again.
Reuse ==
    /\ arg.f = "builder"
    /\ stored # NoBuilder
    /\ builder # stored
    /\ builder' = stored
    /\ UNCHANGED <<rules, globalStore, postcssCache, stored, log, processRuns,
                   compileRuns, firstInserted, lastInserted, arg, out>>

\* toTextCss() or StyleProvider() after css( style ).
EmptyRead ==
    /\ arg.f = "empty"
    /\ Len(log) >= 1
    /\ (ToTextCss("A") \/ StyleProviderCall("A"))

NextFn ==
    \/ CssFirst \/ CssSecond
    \/ GlobalFirst \/ GlobalSecond
    \/ NameCss \/ NameKeyframes \/ NameGlobal
    \/ Compile
    \/ Stringify
    \/ BuilderWhen \/ BuilderState \/ BuilderTerminal \/ Reuse
    \/ EmptyRead

SpecFn == InitFn /\ [][NextFn]_vars

(***************************************************************************)
(* Properties                                                              *)
(***************************************************************************)
\* The entries of a store under key k.
Entries(m, k) == {n \in 1..Len(m) : m[n][1] = k}

\* The call log[n] repeats an earlier call: same scope, operation and arguments.
Repeats(n) ==
    \E m \in 1..(n - 1) :
        /\ log[m].op = log[n].op
        /\ log[m].scope = log[n].scope
        /\ log[m].args = log[n].args

\* C1: css(d) called again on a scope returns the class name the earlier call
\* returned, the store then holds exactly one entry for that class, and the
\* second call leaves the store as it was.
C1_CssRepeatable ==
    [][\A i \in Scopes :
          (/\ log' = Append(log, ret')
           /\ ret'.op = "css"
           /\ ret'.scope = i
           /\ \E m \in 1..Len(log) : log[m].op = "css" /\ log[m].scope = i /\ log[m].args = ret'.args)
          => /\ \A m \in 1..Len(log) :
                    (log[m].op = "css" /\ log[m].scope = i /\ log[m].args = ret'.args)
                        => log[m].value = ret'.value
             /\ Cardinality(Entries(rules'[i], "class:" \o ret'.value.s)) = 1
             /\ rules'[i] = rules[i]]_vars

C1_Witness ==
    /\ Len(log) >= 2
    /\ ret.op = "css"
    /\ Repeats(Len(log))
    /\ Cardinality(Entries(rules[ret.scope], "class:" \o ret.value.s)) = 1

\* C2: two descriptions with the same keys and values at every nesting level,
\* built in different key orders, get the same class name from css().
C2_CssOrderInvariant ==
    (Len(log) = 2 /\ arg.f = "css" /\ SameContent(arg.style, arg.style2))
        => log[1].value = log[2].value

C2_Witness ==
    /\ Len(log) = 2
    /\ arg.f = "css"
    /\ SameContent(arg.style, arg.style2)
    /\ arg.style # arg.style2
    /\ arg.style.o[1].k # arg.style2.o[1].k
    /\ Get(arg.style, "_hover") # Get(arg.style2, "_hover")
    /\ log[1].value = log[2].value

\* The declaration text of a top-level scalar entry.
DeclText(e) == toKebabCase(e.k) \o ":" \o ToText(e.v)

\* C3: global(s, d1) directly followed by global(s, d2) on one scope leaves
\* exactly one entry under global:s, whose text has every top-level declaration
\* of d1 whose key d2 lacks and every declaration of d2.
C3_GlobalAccumulates ==
    \A n \in 2..Len(log) :
        (/\ n = Len(log)
         /\ log[n].op = "global" /\ log[n - 1].op = "global"
         /\ log[n].scope = log[n - 1].scope
         /\ log[n].args[1] = log[n - 1].args[1])
        => LET i == log[n].scope
               key == "global:" \o log[n].args[1].s
               d1 == log[n - 1].args[2]
               d2 == log[n].args[2]
           IN  /\ Cardinality(Entries(rules[i], key)) = 1
               /\ \A e \in 1..Len(d1.o) :
                      ~HasKey(d2, d1.o[e].k) => includes(MapGet(rules[i], key), DeclText(d1.o[e]))
               /\ \A e \in 1..Len(d2.o) : includes(MapGet(rules[i], key), DeclText(d2.o[e]))

C3_Witness ==
    /\ Len(log) = 3
    /\ log[2].op = "global" /\ log[2].args = <<Str("body"), G1>>
    /\ log[3].op = "global" /\ log[3].args = <<Str("body"), G2>>
    /\ includes(MapGet(rules["A"], "global:body"), "margin:0")
    /\ includes(MapGet(rules["A"], "global:body"), "padding:0")
    /\ includes(MapGet(rules["A"], "global:body"), "color:blue")

\* The position of key k in a store.
Index(m, k) == CHOOSE n \in 1..Len(m) : m[n][1] = k

\* Key k1 comes before key k2 in a store, hence in the text toTextCss() returns.
Before(m, k1, k2) == MapHas(m, k1) /\ MapHas(m, k2) /\ Index(m, k1) < Index(m, k2)

\* The step is a call op on scope i.
Calls(i, op) == log' = Append(log, ret') /\ ret'.scope = i /\ ret'.op = op

\* C4, as stated: a global(s, ...) call on a registered selector s leaves the
\* rule of s before every rule it was before.
C4_GlobalKeepsPosition ==
    [][\A i \in Scopes :
          Calls(i, "global")
          => \A n \in 1..Len(rules[i]) :
                 Before(rules[i], "global:" \o ret'.args[1].s, rules[i][n][1])
                     => Before(rules'[i], "global:" \o ret'.args[1].s, rules[i][n][1])]_vars

\* C4, amended: a global(s, ...) call on a registered selector s takes the rule
\* of s out of its place and puts the merged rule last; the other rules keep
\* their texts and their order.
C4_GlobalMovesToEnd ==
    [][\A i \in Scopes :
          (Calls(i, "global") /\ MapHas(rules[i], "global:" \o ret'.args[1].s))
          => LET key == "global:" \o ret'.args[1].s
             IN  /\ Len(rules'[i]) = Len(rules[i])
                 /\ rules'[i][Len(rules'[i])][1] = key
                 /\ SubSeq(rules'[i], 1, Len(rules'[i]) - 1)
                        = SelectSeq(rules[i], LAMBDA e : e[1] # key)]_vars

\* global("body", ...) after resetStyle(): the rule of body was second of four
\* and is last now, behind the rule of "a" it was before.
C4_Witness ==
    /\ Len(log) = 2
    /\ log[1].op = "resetStyle"
    /\ log[2].op = "global" /\ log[2].args[1] = Str("body")
    /\ Len(rules["A"]) = 4
    /\ Before(rules["A"], "global:a", "global:body")

\* The names css returned differ in the prefix only.
Suffix(call) == SubSeq(call.value.s, Len(Prefix(call.scope)) + 2, Len(call.value.s))

\* C5: a call on one scope leaves what toTextCss() returns on every other scope
\* as it was, and css(d) on two scopes returns names with the same hash suffix
\* after the prefix.
C5_ScopeIsolation ==
    [][/\ \A i \in Scopes :
             (log' = Append(log, ret') /\ ret'.scope # i)
                 => toTextCss(rules'[i]) = toTextCss(rules[i])
       /\ \A m, n \in 1..Len(log') :
             (/\ log'[m].op = "css" /\ log'[n].op = "css"
              /\ log'[m].args = log'[n].args)
             => /\ Suffix(log'[m]) = Suffix(log'[n])
                /\ log'[m].value.s = Prefix(log'[m].scope) \o "_" \o Suffix(log'[m])]_vars

\* css(S1) on both scopes and a rule stored on "A" while "B" held one.
C5_Witness ==
    /\ Len(log) = 3
    /\ log[1].op = "css" /\ log[1].scope = "B"
    /\ log[2].op = "css" /\ log[2].scope = "A"
    /\ log[1].value # log[2].value
    /\ log[3].op = "resetStyle" /\ log[3].scope = "A"
    /\ Len(rules["B"]) = 1 /\ Len(rules["A"]) = 5

\* The operations that define a rule.
RuleDefining ==
    {"css", "global", "root", "resetStyle", "keyframes", "fontFace",
     "adjacent", "child", "sibling", "descendant"}

\* A rule-defining call on scope i came before call n.
DefinedBefore(i, n) ==
    \E m \in 1..(n - 1) : log[m].scope = i /\ log[m].op \in RuleDefining

\* C6: toTextCss() returns null, not the empty string, on a scope no
\* rule-defining call was made on, and a string once one was made.
C6_NullWhenEmpty ==
    \A n \in 1..Len(log) :
        log[n].op = "toTextCss"
        => IF DefinedBefore(log[n].scope, n)
           THEN log[n].value.t = "string"
           ELSE log[n].value = Null /\ log[n].value # Str("")

C6_Witness ==
    /\ Len(log) = 3
    /\ log[1].op = "toTextCss" /\ log[1].value = Null
    /\ log[2].op = "css" /\ log[2].args = <<S3>>
    /\ log[3].op = "toTextCss" /\ log[3].value = Str("\n")

\* The texts a store holds under the keys ks, in the order of ks, each followed
\* by one newline.
RECURSIVE TextOf(_, _)
TextOf(m, ks) ==
    IF Len(ks) = 0 THEN "" ELSE MapGet(m, ks[1]) \o "\n" \o TextOf(m, Tail(ks))

\* The number of newlines in a text.
Newlines(text) == Cardinality({n \in 1..Len(text) : CharAt(text, n) = "\n"})

\* C7, as stated: on a non-empty store toTextCss() returns the stored texts in
\* the order their keys were first inserted, each followed by one newline, with
\* as many newlines as entries.
C7_TextInFirstInsertionOrder ==
    (ret.op = "toTextCss" /\ Len(rules[ret.scope]) # 0)
        => /\ ret.value = Str(TextOf(rules[ret.scope], firstInserted[ret.scope]))
           /\ Newlines(ret.value.s) = Len(rules[ret.scope])

\* C7, amended: on a non-empty store toTextCss() returns the stored texts in
\* the order their keys were last inserted (a re-defined global selector counts
\* as inserted anew), each followed by one newline, with as many newlines as
\* entries.
C7_TextInLatestInsertionOrder ==
    (ret.op = "toTextCss" /\ Len(rules[ret.scope]) # 0)
        => /\ ret.value = Str(TextOf(rules[ret.scope], lastInserted[ret.scope]))
           /\ Newlines(ret.value.s) = Len(rules[ret.scope])

\* toTextCss() after resetStyle() and global("body", ...): four texts, the one
\* of body last.
C7_Witness ==
    /\ Len(log) = 3
    /\ log[1].op = "resetStyle"
    /\ log[2].op = "global"
    /\ log[3].op = "toTextCss"
    /\ firstInserted["A"] # lastInserted["A"]
    /\ Newlines(log[3].value.s) = 4

\* C8: a scope compiles and transforms the rule of a class key at most once,
\* and a css(d) call whose key class:<name> is in the store compiles nothing,
\* transforms nothing and leaves the store as it was.
C8_ClassCompiledOnce ==
    [][/\ \A k \in DOMAIN compileRuns' :
             startsWith(k[2], "class:") => compileRuns'[k] <= 1
       /\ \A i \in Scopes :
             (Calls(i, "css") /\ MapHas(rules[i], "class:" \o ret'.value.s))
             => /\ rules' = rules
                /\ compileRuns' = compileRuns
                /\ processRuns' = processRuns
                /\ postcssCache' = postcssCache]_vars

\* Three css calls with one content in two key orders: one rule, compiled once.
C8_Witness ==
    /\ Len(log) = 3
    /\ \A n \in 1..3 : log[n].op = "css" /\ log[n].value = log[1].value
    /\ log[1].args # log[2].args
    /\ Len(rules["A"]) = 1
    /\ Runs(compileRuns, <<"A", "class:" \o log[1].value.s>>) = 1
    /\ Runs(processRuns, serializeNested(S1, Ctx("." \o log[1].value.s, NoMedia))) = 1

\* An earlier call of op on scope i with structurally equal input.
EarlierEqual(i, op) ==
    {m \in 1..Len(log) :
        /\ log[m].scope = i /\ log[m].op = op
        /\ SameContent(log[m].args[1], ret'.args[1])}

\* C9: keyframes(frames) and fontFace(font) called again with structurally
\* equal input leave the store as it was, with one entry under
\* @keyframes:<name> or @font-face:<hash>; keyframes returns the name
\* <prefix>_<hash> it returned before, and the stored text starts with
\* @keyframes <name>.
C9_FramesAndFontsOnce ==
    [][\A i \in Scopes :
          /\ Calls(i, "keyframes")
             => /\ Cardinality(Entries(rules'[i], "@keyframes:" \o ret'.value.s)) = 1
                /\ startsWith(ret'.value.s, Prefix(i) \o "_")
                /\ startsWith(MapGet(rules'[i], "@keyframes:" \o ret'.value.s),
                              "@keyframes " \o ret'.value.s \o "{")
                /\ \A m \in EarlierEqual(i, "keyframes") :
                       log[m].value = ret'.value /\ rules'[i] = rules[i]
          /\ Calls(i, "fontFace")
             => /\ Cardinality({n \in 1..Len(rules'[i]) :
                                    startsWith(rules'[i][n][1], "@font-face:")}) = 1
                /\ \A m \in EarlierEqual(i, "fontFace") : rules'[i] = rules[i]]_vars

\* keyframes on one content in two key orders, then fontFace: two entries.
C9_Witness ==
    /\ Len(log) = 3
    /\ log[1].op = "keyframes" /\ log[1].args = <<K1>>
    /\ log[2].op = "keyframes" /\ log[2].args = <<K2>>
    /\ log[1].value = log[2].value
    /\ log[3].op = "fontFace"
    /\ MapKeys(rules["A"])[1] = "@keyframes:" \o log[1].value.s
    /\ Len(rules["A"]) = 2

\* The condition each breakpoint key stands for.
BreakpointCondition(b) ==
    CASE b = "_sm" -> "(min-width:640px)"
      [] b = "_md" -> "(min-width:768px)"
      [] b = "_lg" -> "(min-width:1024px)"
      [] b = "_xl" -> "(min-width:1280px)"
      [] b = "_xxl" -> "(min-width:1536px)"

\* The one key of a description whose value is a description.
NestedKey(style) == CHOOSE k \in {style.o[n].k : n \in 1..Len(style.o)} : IsObjectType(Get(style, k))

\* The rule S{...} of the scalar entries of a description.
BareRule(selector, style) ==
    LET scalars == SelectSeq(style.o, LAMBDA e : ~IsObjectType(e.v))
    IN  selector \o "{" \o join([n \in 1..Len(scalars) |-> DeclText(scalars[n])], ";") \o "}"

\* C10: a description with top-level scalars and one breakpoint key compiles
\* under selector S to the rule S{...} of the scalars and then the rule S{...}
\* of the breakpoint's scalars inside @media <the breakpoint's condition>{...}.
C10_BreakpointNesting ==
    (arg.f = "serializeNested" /\ out # NoOut)
        => LET b == NestedKey(arg.style)
           IN  out = Str(BareRule(arg.ctx.selector, arg.style)
                            \o "@media " \o BreakpointCondition(b) \o "{"
                            \o BareRule(arg.ctx.selector, Get(arg.style, b)) \o "}")

C10_Witness ==
    /\ arg.f = "serializeNested"
    /\ arg.style = Obj(<<P("_md", Obj(<<P("color", Str("blue"))>>)), P("color", Str("red"))>>)
    /\ arg.ctx.selector = ".next_x"
    /\ out = Str(".next_x{color:red}@media (min-width:768px){.next_x{color:blue}}")

\* C11: a description {p: {b: {decls}}} with a state key p and a breakpoint
\* key b compiles under selector S to one rule, with selector S:<state>,
\* inside @media <the condition of b>; no rule outside @media and no rule with
\* selector S alone.
C11_StateInBreakpoint ==
    (arg.f = "compose" /\ out # NoOut)
        => LET p == arg.style.o[1].k
               b == arg.style.o[1].v.o[1].k
               decls == arg.style.o[1].v.o[1].v
           IN  out = Str("@media " \o BreakpointCondition(b) \o "{"
                            \o BareRule(arg.ctx.selector \o ":" \o SubSeq(p, 2, Len(p)), decls)
                            \o "}")

C11_Witness ==
    /\ arg.f = "compose"
    /\ arg.style = Obj(<<P("_hover", Obj(<<P("_lg", Obj(<<P("opacity", Num("0.5"))>>))>>))>>)
    /\ arg.ctx.selector = ".next_x"
    /\ out = Str("@media (min-width:1024px){.next_x:hover{opacity:0.5}}")

\* The terminal actions of a builder and their combinators.
Terminals == {"adjacent", "child", "sibling", "descendant"}
Combinator(op) ==
    CASE op = "adjacent" -> "+"
      [] op = "child" -> ">"
      [] op = "sibling" -> "~"
      [] op = "descendant" -> " "

\* The selector a terminal action on builder b with target t stands for.
RelationSelector(b, op, t) ==
    "." \o b.source \o (IF b.pseudo = "" THEN "" ELSE ":" \o b.pseudo) \o Combinator(op) \o "." \o t

\* C12: a terminal action adjacent/child/sibling/descendant on a builder with
\* source a, target b and an optional state st registers a rule under
\* global:<.a, then :st if a state was chosen, then + > ~ or one space, then .b>
\* and changes the scope exactly as global() with that selector does.
C12_RelationSelectors ==
    [][\A i \in Scopes, op \in Terminals :
          Calls(i, op)
          => LET selector == RelationSelector(builder, op, ret'.args[1].s)
                 viaGlobal == global(Enter(i), selector, ret'.args[2])
             IN  /\ builder.ns = i
                 /\ MapHas(rules'[i], "global:" \o selector)
                 /\ startsWith(MapGet(rules'[i], "global:" \o selector), selector \o "{")
                 /\ rules'[i] = viaGlobal.rules
                 /\ globalStore'[i] = viaGlobal.globalStore]_vars

C12_Witness ==
    /\ Len(log) = 3
    /\ log[1].op = "when" /\ log[1].args = <<Str("a")>>
    /\ log[2].op = "hover"
    /\ log[3].op = "adjacent" /\ log[3].args[1] = Str("b")
    /\ MapKeys(rules["A"]) = <<"global:.a:hover+.b">>

\* The entries of a description whose value is a description, and the others.
NestedOf(d) == {n \in 1..Len(d.o) : IsObjectType(d.o[n].v)}
ScalarsOf(d) == {n \in 1..Len(d.o) : ~IsObjectType(d.o[n].v)}

\* C13: after global(s, d1) and global(s, d2) the rule of s has, for a nested
\* key both have, the declarations of d2's value and none that only d1's value
\* had; a nested key only d1 has keeps its declarations; a top-level scalar
\* only d1 has persists, and one both have takes d2's value.
C13_GlobalMergeShallow ==
    (arg.f = "global" /\ Len(log) = 2)
        => LET d1 == arg.style
               d2 == arg.style2
               text == MapGet(rules["A"], "global:" \o arg.ctx.selector)
           IN  /\ MapKeys(rules["A"]) = <<"global:" \o arg.ctx.selector>>
               /\ \A n \in NestedOf(d1) :
                      LET k == d1.o[n].k
                          v1 == d1.o[n].v
                          v2 == Get(d2, k)
                      IN  IF HasKey(d2, k)
                          THEN /\ \A m \in 1..Len(v2.o) : includes(text, DeclText(v2.o[m]))
                               /\ \A m \in 1..Len(v1.o) :
                                      ~HasKey(v2, v1.o[m].k) => ~includes(text, DeclText(v1.o[m]))
                               /\ \A m \in 1..Len(v1.o) :
                                      v1.o[m] # Get(v2, v1.o[m].k) => ~includes(text, DeclText(v1.o[m]))
                          ELSE \A m \in 1..Len(v1.o) : includes(text, DeclText(v1.o[m]))
               /\ \A n \in ScalarsOf(d1) :
                      IF HasKey(d2, d1.o[n].k)
                      THEN d1.o[n].v # Get(d2, d1.o[n].k) => ~includes(text, DeclText(d1.o[n]))
                      ELSE includes(text, DeclText(d1.o[n]))
               /\ \A n \in ScalarsOf(d2) : includes(text, DeclText(d2.o[n]))

C13_Witness ==
    /\ arg.f = "global" /\ Len(log) = 2
    /\ HasKey(arg.style, "_hover") /\ HasKey(arg.style2, "_hover")
    /\ arg.ctx.selector = "body"
    /\ MapGet(rules["A"], "global:body")
          = "body{color:green;margin:0;padding:0}body:hover{opacity:0.5}"

\* C14: a rule-defining call (css, global, root, resetStyle, keyframes,
\* fontFace, a terminal action of a builder) made again right after itself with
\* the same arguments leaves the store of its scope, keys, order and texts, and
\* what toTextCss() returns, as the first call left them.
C14_RepeatChangesNothing ==
    [][\A i \in Scopes :
          (/\ log' = Append(log, ret')
           /\ ret'.scope = i
           /\ ret'.op \in RuleDefining
           /\ Len(log) > 0
           /\ ret'.op = ret.op /\ ret'.scope = ret.scope /\ ret'.args = ret.args)
          => /\ rules'[i] = rules[i]
             /\ toTextCss(rules'[i]) = toTextCss(rules[i])
             /\ ret'.value = ret.value]_vars

\* global("body", G2) twice after global("body", G1).
C14_Witness ==
    /\ Len(log) = 3
    /\ log[1].op = "global" /\ log[1].args = <<Str("body"), G1>>
    /\ log[2].op = "global" /\ log[2].args = <<Str("body"), G2>>
    /\ log[3] = log[2]
    /\ MapGet(rules["A"], "global:body") = "body{margin:0;color:blue;padding:0}"

\* The token of a name css or keyframes returned: what follows <prefix>_.
Token(call) == Suffix(call)

\* The calls that return a name.
Naming == {n \in 1..Len(log) : log[n].op \in {"css", "keyframes"}}

IsBase36(text) == \A n \in 1..Len(text) : \E d \in 1..36 : CharAt(text, n) = CharAt(Digits36, d)

HasPrefix(call) == startsWith(call.value.s, Prefix(call.scope) \o "_")

\* The 64-bit hash of the seed of a named input, in base 36, computed apart
\* from the model: FNV-1a with offset basis 0xcbf29ce484222325 and prime
\* 0x100000001b3 over {"color":"<c>"} and {"to":{"color":"<c>"}}.
Rendering(call) ==
    LET v == call.args[1]
    IN  CASE v = Obj(<<P("color", Str("red"))>>) -> "3mxjctfibt53n"
          [] v = Obj(<<P("color", Str("blue"))>>) -> "1rq65juh0k9u"
          [] v = Obj(<<P("color", Str("bf5h0"))>>) -> "35bwfhkf"
          [] v = Obj(<<P("to", Obj(<<P("color", Str("red"))>>))>>) -> "2udbx6mqx18py"
          [] v = Obj(<<P("to", Obj(<<P("color", Str("cpe4r"))>>))>>) -> "flbxjbgz"

\* C15, as stated: every name css() or keyframes() returns is <prefix>_<token>
\* with a token of exactly 9 base-36 characters.
C15_TokenHasNineCharacters ==
    \A n \in Naming :
        HasPrefix(log[n]) /\ IsBase36(Token(log[n])) /\ Len(Token(log[n])) = 9

\* C15, amended: every name css() or keyframes() returns is <prefix>_<token>
\* with a token of 1 to 9 base-36 characters, the first 9 characters of the
\* hash in base 36: all of it when the hash has fewer than 9 digits.
C15_TokenIsFirstNine ==
    \A n \in Naming :
        /\ HasPrefix(log[n])
        /\ IsBase36(Token(log[n]))
        /\ Len(Token(log[n])) \in 1..9
        /\ arg.f = "name" =>
              LET full == Rendering(log[n])
              IN  /\ startsWith(full, Token(log[n]))
                  /\ Len(Token(log[n])) = (IF Len(full) < 9 THEN Len(full) ELSE 9)

\* css({color: "bf5h0"}) on the scope with prefix home: an 8-character token.
C15_Witness ==
    /\ arg.f = "name" /\ Len(log) = 2
    /\ log[1].op = "css" /\ log[1].scope = "B" /\ log[1].value = Str("home_35bwfhkf")
    /\ log[2].op = "keyframes" /\ log[2].scope = "A" /\ log[2].value = Str("next_2udbx6mqx")

\* C16: resetStyle() returns the instance it was called on, and on a scope
\* with no rule defined before it leaves exactly the four global keys of
\* html,body, of body, of the universal selector and of a, in that order.
C16_ResetStyleReturnsThis ==
    \A n \in 1..Len(log) :
        log[n].op = "resetStyle"
        => /\ log[n].value = This
           /\ (n = Len(log) /\ ~DefinedBefore(log[n].scope, n))
                 => /\ MapKeys(rules[log[n].scope])
                        = <<"global:html,body", "global:body",
                            "global:*,*::before,*::after", "global:a">>
                    /\ MapKeys(globalStore[log[n].scope]) = MapKeys(rules[log[n].scope])

C16_Witness ==
    /\ Len(log) = 2
    /\ log[1].op = "toTextCss" /\ log[1].value = Null
    /\ log[2].op = "resetStyle" /\ log[2].value = This
    /\ Len(rules["A"]) = 4
    /\ MapGet(rules["A"], "global:a") = "a{color:inherit;text-decoration:none}"

\* C17: root(d) changes the scope exactly as global(":root", d) does, the rule
\* under global::root being last in the store, and the rule has the
\* declarations of d and the properties of every root call before it.
C17_RootIsGlobalRoot ==
    [][\A i \in Scopes :
          Calls(i, "root")
          => LET d == ret'.args[1]
                 viaGlobal == global(Enter(i), ":root", d)
                 text == MapGet(rules'[i], "global::root")
             IN  /\ rules'[i] = viaGlobal.rules
                 /\ globalStore'[i] = viaGlobal.globalStore
                 /\ postcssCache' = viaGlobal.cache
                 /\ rules'[i][Len(rules'[i])][1] = "global::root"
                 /\ startsWith(text, ":root{")
                 /\ \A e \in 1..Len(d.o) : includes(text, DeclText(d.o[e]))
                 /\ \A m \in 1..Len(log) :
                        (log[m].op = "root" /\ log[m].scope = i)
                        => \A e \in 1..Len(log[m].args[1].o) :
                               \/ includes(text, DeclText(log[m].args[1].o[e]))
                               \/ \E l \in (m + 1)..Len(log') :
                                      /\ log'[l].op = "root" /\ log'[l].scope = i
                                      /\ HasKey(log'[l].args[1], log[m].args[1].o[e].k)]_vars

\* root(R1), a class rule, root(R2): one rule for :root, last, with both variables.
C17_Witness ==
    /\ Len(log) = 3
    /\ log[1].op = "root" /\ log[1].args = <<R1>>
    /\ log[2].op = "css" /\ log[2].args = <<S1>>
    /\ log[3].op = "root" /\ log[3].args = <<R2>>
    /\ Len(rules["A"]) = 2
    /\ rules["A"][2] = <<"global::root", ":root{--c:#fff;--r:12px}">>

\* What StyleProvider() and toTextCss() return on a store agree: null together,
\* or a style element whose children are the string toTextCss() returns.
Agree(element, text) ==
    IF text = Null THEN element = Null
    ELSE /\ element # Null
         /\ element.t = "element"
         /\ element.o = <<"style">>
         /\ text.t = "string"
         /\ element.s = text.s

\* C18: in every state StyleProvider() returns null exactly when toTextCss()
\* does, and otherwise a style element whose text is the string toTextCss()
\* returns; a call of either returns that value and leaves the stores as they
\* were.
C18_StyleProviderIsToTextCss ==
    [][\A i \in Scopes :
          /\ Agree(StyleProvider(rules'[i]), toTextCss(rules'[i]))
          /\ Calls(i, "StyleProvider")
                => /\ Agree(ret'.value, toTextCss(rules[i]))
                   /\ rules' = rules /\ globalStore' = globalStore
          /\ Calls(i, "toTextCss")
                => /\ Agree(StyleProvider(rules[i]), ret'.value)
                   /\ rules' = rules /\ globalStore' = globalStore]_vars

\* StyleProvider() on an empty store, then after a rule, then toTextCss().
C18_Witness ==
    /\ Len(log) = 3
    /\ log[1].op = "StyleProvider" /\ log[1].value = Null
    /\ log[2].op = "css" /\ log[2].args = <<S1>>
    /\ log[3].op = "StyleProvider" /\ log[3].value # Null
    /\ log[3].value.s = toTextCss(rules["A"]).s
    /\ Newlines(log[3].value.s) = 1

\* C19, as stated: over all scopes and operations the processor runs at most
\* once on each raw rule text, the texts whose transform is the empty string
\* included.
C19_ProcessorRunsOncePerText ==
    \A raw \in DOMAIN processRuns : processRuns[raw] <= 1

\* The processor ran at most once on every raw text whose transform is not
\* empty, and the cache holds the transform of every text it ran on.
C19_NonEmptyRunsOnce ==
    \A raw \in DOMAIN processRuns :
        /\ MapHas(postcssCache, raw)
        /\ MapGet(postcssCache, raw) = process(raw)
        /\ process(raw) # "" => processRuns[raw] = 1

\* css({}) on two scopes: the raw text of both rules is empty, the cache holds
\* its empty transform after the first call, and the processor ran on it twice;
\* it ran once on the raw text of body, compiled by both scopes.
C19_Witness ==
    /\ Len(log) = 3
    /\ log[1].op = "css" /\ log[1].scope = "A" /\ log[1].args = <<S3>>
    /\ log[2].op = "css" /\ log[2].scope = "B" /\ log[2].args = <<S3>>
    /\ MapGet(postcssCache, "") = ""
    /\ Runs(processRuns, "") = 2

\* C20: a description with an entry the compiler has no rule for (a null or
\* undefined value, an object under a key that is no state or breakpoint key,
\* a key with the prefix "_" that is no state or breakpoint key) compiles to
\* the text of the description without the entry, in which the entry has no
\* part.
C20_SilentSkip ==
    (arg.f = "skip" /\ out # NoOut)
        => /\ out.t = "string"
           /\ out = Str(serializeNested(arg.style2, arg.ctx))
           /\ out = Str(BareRule(arg.ctx.selector, arg.style2)
                           \o BareRule(arg.ctx.selector \o ":hover", Get(arg.style2, "_hover")))
           /\ \A text \in {"margin", "font", "first", "none", "null", "undefined", "object"} :
                  ~includes(out.s, text)

C20_Witness ==
    /\ arg.f = "skip"
    /\ arg.style = Obj(<<P("color", Str("red")),
                         P("_hover", Obj(<<P("margin", Null), P("opacity", Num("0.5"))>>))>>)
    /\ arg.ctx.selector = "body"
    /\ out = Str("body{color:red}body:hover{opacity:0.5}")

\* The state keys and the breakpoint keys in the order of their fragments.
StateOrder == <<"_hover", "_focus", "_active">>
BreakpointOrder == <<"_sm", "_md", "_lg", "_xl", "_xxl">>

\* The rule of the scalars of a description, or nothing when it has none.
OwnRule(selector, style) ==
    IF \E n \in 1..Len(style.o) : ~IsObjectType(style.o[n].v)
    THEN BareRule(selector, style) ELSE ""

\* The fragments of a description whose nested values hold scalars only: its
\* own rule, its states in StateOrder, its breakpoints in BreakpointOrder.
Fragments(selector, style) ==
    OwnRule(selector, style)
    \o join([n \in 1..3 |->
                IF HasKey(style, StateOrder[n])
                THEN OwnRule(selector \o ":" \o SubSeq(StateOrder[n], 2, Len(StateOrder[n])),
                             Get(style, StateOrder[n]))
                ELSE ""], "")
    \o join([n \in 1..5 |->
                IF HasKey(style, BreakpointOrder[n])
                THEN "@media " \o BreakpointCondition(BreakpointOrder[n]) \o "{"
                        \o OwnRule(selector, Get(style, BreakpointOrder[n])) \o "}"
                ELSE ""], "")

\* C21: whatever the key order of a description, its compiled text is the rule
\* of its own scalars, if it has any, then the fragments of its state keys in
\* the order hover, focus, active, then those of its breakpoint keys in the
\* order sm, md, lg, xl, xxl.
C21_FragmentOrder ==
    (arg.f = "order" /\ out # NoOut) => out = Str(Fragments(arg.ctx.selector, arg.style))

\* Keys inserted as _xl, _active, _sm, _hover: no own rule, hover before
\* active, sm before xl.
C21_Witness ==
    /\ arg.f = "order"
    /\ Keys(arg.style) = <<"_xl", "_active", "_sm", "_hover">>
    /\ out = Str(".c:hover{color:hover}.c:active{color:active}"
                    \o "@media (min-width:640px){.c{color:sm}}"
                    \o "@media (min-width:1280px){.c{color:xl}}")

\* Two media conditions as one: the enclosing one first, then " and ", then the
\* other; the other alone when none encloses it.
Joined(enclosing, condition) ==
    IF enclosing = "" THEN condition ELSE enclosing \o " and " \o condition

\* C22: a breakpoint key compiled while a media condition m is in effect gives
\* one rule inside one @media m and <condition of the key>; with none in
\* effect, inside @media <condition of the key>; a state key inside a
\* breakpoint key keeps the condition it is compiled under.
C22_MediaConditionsMerge ==
    (arg.f = "media" /\ out # NoOut)
        => LET S == arg.ctx.selector
               outer == Joined(arg.ctx.media, BreakpointCondition(arg.style.o[1].k))
               inner == arg.style.o[1].v
               k == inner.o[1].k
           IN  out = Str(IF ~IsObjectType(inner.o[1].v)
                         THEN "@media " \o outer \o "{" \o BareRule(S, inner) \o "}"
                         ELSE IF k \in {StateOrder[n] : n \in 1..3}
                         THEN "@media " \o outer \o "{"
                                 \o BareRule(S \o ":" \o SubSeq(k, 2, Len(k)), Get(inner, k)) \o "}"
                         ELSE "@media " \o Joined(outer, BreakpointCondition(k)) \o "{"
                                 \o BareRule(S, Get(inner, k)) \o "}")

\* _lg inside _md while print is in effect: one @media with three conditions.
C22_Witness ==
    /\ arg.f = "media"
    /\ arg.ctx.media = "print"
    /\ arg.style = Obj(<<P("_md", Obj(<<P("_lg", Obj(<<P("color", Str("blue"))>>))>>))>>)
    /\ out = Str("@media print and (min-width:768px) and (min-width:1024px){.c{color:blue}}")

\* The same value up to the insertion order of keys: objects with the same
\* keys, arrays of the same length, and the same content under each key and at
\* each index.
RECURSIVE SameMapping(_, _)
SameMapping(a, b) ==
    IF a.t = "object" /\ b.t = "object"
    THEN /\ {a.o[i].k : i \in 1..Len(a.o)} = {b.o[i].k : i \in 1..Len(b.o)}
         /\ \A i \in 1..Len(a.o) : SameMapping(a.o[i].v, Get(b, a.o[i].k))
    ELSE IF a.t = "array" /\ b.t = "array"
    THEN /\ Len(a.o) = Len(b.o)
         /\ \A i \in 1..Len(a.o) : SameMapping(a.o[i], b.o[i])
    ELSE a = b

\* The keys of a value are in sorted order at every depth.
RECURSIVE KeysSorted(_)
KeysSorted(v) ==
    IF v.t = "object"
    THEN /\ \A i \in 1..(Len(v.o) - 1) : StrLess(v.o[i].k, v.o[i + 1].k)
         /\ \A i \in 1..Len(v.o) : KeysSorted(v.o[i].v)
    ELSE IF v.t = "array" THEN \A i \in 1..Len(v.o) : KeysSorted(v.o[i])
    ELSE TRUE

\* C23: the serializer lists the keys of an object in sorted order at every
\* depth, so two values differing only in key insertion order serialize alike;
\* the elements of an array keep their order, so two arrays differing in content
\* at some index serialize differently.
C23_CanonicalSerializer ==
    (arg.f = "stringify" /\ out # NoOut)
        => /\ KeysSorted(arg.style) => out.o[1] = Str(stableStringify_unsorted(arg.style))
           /\ SameMapping(arg.style, arg.style2) => out.o[1] = out.o[2]
           /\ ( /\ arg.style.t = "array" /\ arg.style2.t = "array"
                /\ Len(arg.style.o) = Len(arg.style2.o)
                /\ \E i \in 1..Len(arg.style.o) : ~SameMapping(arg.style.o[i], arg.style2.o[i]) )
                => out.o[1] # out.o[2]

\* The same two elements in the two orders: keys sorted, elements not.
C23_Witness ==
    /\ arg.f = "stringify"
    /\ arg.style = Arr(<<Num("1"), Obj(<<P("b", Num("1")), P("a", Num("2"))>>)>>)
    /\ arg.style2 = Arr(<<Obj(<<P("b", Num("1")), P("a", Num("2"))>>), Num("1")>>)
    /\ out = Arr(<<Str("[1,{\"a\":2,\"b\":1}]"), Str("[{\"a\":2,\"b\":1},1]")>>)

PseudoStates == {"hover", "focus", "active"}

\* How many colons a text has.
Colons(text) == Cardinality({n \in 1..Len(text) : CharAt(text, n) = ":"})

\* C24: hover(), focus() or active() gives a builder of the same source scoped
\* to exactly the state called, whether the receiver was unscoped or scoped; a
\* scoped builder never leads back to an unscoped one by a state call; and no
\* selector a builder emits or has emitted has more than one :state on the
\* source class.
C24_AtMostOneState ==
    /\ [](\A i \in Scopes :
            /\ \A n \in 1..Len(rules[i]) :
                   startsWith(rules[i][n][1], "global:.") => Colons(rules[i][n][1]) <= 2
            /\ builder # NoBuilder
                   => /\ builder.pseudo \in PseudoStates \cup {""}
                      /\ \A op \in Terminals, t \in Targets :
                             Colons(RelationSelector(builder, op, t))
                                 = (IF builder.pseudo = "" THEN 0 ELSE 1))
    /\ [][\A i \in Scopes, st \in PseudoStates :
             Calls(i, st)
             => /\ builder' = [ns |-> builder.ns, source |-> builder.source, pseudo |-> st]
                /\ rules' = rules]_vars

\* focus() called on a builder scoped to hover: scoped to focus alone.
C24_Witness ==
    /\ Len(log) = 3
    /\ log[1].op = "when" /\ log[2].op = "hover" /\ log[3].op = "focus"
    /\ builder = [ns |-> "A", source |-> "a", pseudo |-> "focus"]

\* The part of an emitted selector a builder fixes: the source class and state.
SelectorPrefix(b) == "." \o b.source \o (IF b.pseudo = "" THEN "" ELSE ":" \o b.pseudo)

\* C25: hover(), focus() or active() returns a builder and leaves the receiver
\* with the source and state it had; a terminal action leaves the builder it is
\* called on as it was; so the receiver, taken again after the call, emits
\* selectors with the prefix it had before the call.
C25_BuildersImmutable ==
    [][\A i \in Scopes, op \in PseudoStates \cup Terminals :
          Calls(i, op)
          => /\ stored' = builder
             /\ SelectorPrefix(stored') = SelectorPrefix(builder)
             /\ op \in Terminals => builder' = builder
             /\ op \in PseudoStates
                    => builder' = [ns |-> builder.ns, source |-> builder.source, pseudo |-> op]]_vars

\* s = when("a"); s.hover(); s.adjacent("b", ...): the rule is for .a+.b.
C25_Witness ==
    /\ arg.f = "builder"
    /\ Len(log) = 3
    /\ log[1].op = "when" /\ log[2].op = "hover" /\ log[3].op = "adjacent"
    /\ builder = [ns |-> "A", source |-> "a", pseudo |-> ""]
    /\ MapKeys(rules["A"]) = <<"global:.a+.b">>

\* C26: when two descriptions that differ have the same token, css(d1) and
\* then css(d2) on one scope return the same name, and the store has one
\* entry, class:<name>, holding the rule of d1: the rule of d2 is neither
\* compiled nor given to the processor.
C26_CollisionKeepsFirst ==
    (/\ arg.f = "collision" /\ Len(log) = 2
     /\ arg.style # arg.style2
     /\ createHashName(stableStringify(arg.style)) = createHashName(stableStringify(arg.style2)))
        => LET name == log[1].value.s
           IN  /\ log[2].value = log[1].value
               /\ rules["A"] = <<<<"class:" \o name, BareRule("." \o name, arg.style)>>>>
               /\ Runs(compileRuns, <<"A", "class:" \o name>>) = 1
               /\ Runs(processRuns, BareRule("." \o name, arg.style)) = 1
               /\ Runs(processRuns, BareRule("." \o name, arg.style2)) = 0

\* {color: "f78d2"} and {color: "mqopb"}: hashes 2a7x8vs9n... in base 36.
C26_Witness ==
    /\ arg.f = "collision" /\ Len(log) = 2
    /\ arg.style = Obj(<<P("color", Str("f78d2"))>>)
    /\ arg.style2 = Obj(<<P("color", Str("mqopb"))>>)
    /\ log[1].value = Str("next_2a7x8vs9n")
    /\ log[2].value = Str("next_2a7x8vs9n")
    /\ rules["A"] = <<<<"class:next_2a7x8vs9n", ".next_2a7x8vs9n{color:f78d2}">>>>

\* The entries of a store under a class:, @keyframes: or @font-face: key.
Permanent(m) ==
    SelectSeq(m, LAMBDA e : \/ startsWith(e[1], "class:")
                            \/ startsWith(e[1], "@keyframes:")
                            \/ startsWith(e[1], "@font-face:"))

\* C27: every step leaves the entries under class:, @keyframes: and
\* @font-face: keys with their texts and in their order, new ones coming after
\* them, and leaves every key of the store in the store.
C27_EntriesPermanent ==
    [][\A i \in Scopes :
          /\ Len(Permanent(rules[i])) <= Len(Permanent(rules'[i]))
          /\ SubSeq(Permanent(rules'[i]), 1, Len(Permanent(rules[i]))) = Permanent(rules[i])
          /\ \A n \in 1..Len(rules[i]) : MapHas(rules'[i], rules[i][n][1])]_vars

\* css, then resetStyle and a second global rule of body: the class entry is
\* first, with the text it got, and body's rule has moved behind the others.
C27_Witness ==
    /\ Len(log) = 3
    /\ log[1].op = "css" /\ log[2].op = "resetStyle" /\ log[3].op = "global"
    /\ Len(rules["A"]) = 5
    /\ log[1].args = <<S1>>
    /\ rules["A"][1] = <<"class:" \o log[1].value.s,
                         BareRule("." \o log[1].value.s, S1)
                             \o "@media " \o BreakpointCondition("_md") \o "{"
                             \o BareRule("." \o log[1].value.s, Get(S1, "_md")) \o "}">>
    /\ rules["A"][5][1] = "global:body"

\* C28: after css(d) on a fresh scope, d with no scalar at any level, the
\* store has the one entry class:<name> with the empty text; toTextCss() then
\* returns the string of one newline, not null, and StyleProvider() a style
\* element with that text, not null.
C28_EmptyRuleStored ==
    (arg.f = "empty" /\ Len(log) >= 1)
        => /\ log[1].op = "css"
           /\ rules["A"] = <<<<"class:" \o log[1].value.s, "">>>>
           /\ \A n \in 2..Len(log) :
                  /\ log[n].op = "toTextCss" => log[n].value = Str("\n")
                  /\ log[n].op = "StyleProvider"
                        => /\ log[n].value # Null
                           /\ log[n].value.t = "element"
                           /\ log[n].value.o = <<"style">>
                           /\ log[n].value.s = "\n"

\* css({}), toTextCss(), StyleProvider().
C28_Witness ==
    /\ arg.f = "empty" /\ Len(log) = 3
    /\ log[1].op = "css" /\ log[1].args = <<Obj(<<>>)>>
    /\ log[2].op = "toTextCss" /\ log[2].value = Str("\n")
    /\ log[3].op = "StyleProvider" /\ log[3].value = createElement("style", "\n")
    /\ Len(rules["A"]) = 1 /\ rules["A"][1][2] = ""

\* C29: css(d) and keyframes(d) on one scope return the same name and leave
\* two entries, class:<name> and @keyframes:<name>, each with its own text; a
\* global(s, ...) after them, s made of that name, adds the entry global:s and
\* leaves the two as they were.
C29_KindsApart ==
    (/\ arg.f = "name" /\ Len(log) >= 2
     /\ arg.style = arg.style2
     /\ log[1].scope = log[2].scope)
        => LET i == log[1].scope
               name == log[1].value.s
               color == Get(arg.style, "to").o[1].v.s
           IN  /\ log[2].value = log[1].value
               /\ Len(rules[i]) = Len(log)
               /\ rules[i][1] = <<"class:" \o name, "">>
               /\ rules[i][2] = <<"@keyframes:" \o name,
                                  "@keyframes " \o name \o "{ to{ color:" \o color \o " } }">>
               /\ Len(log) = 3
                     => /\ rules[i][3][1] = "global:" \o log[3].args[1].s
                        /\ log[3].args[1].s \in NameSelectors(name)

\* css and keyframes of {to: {color: "red"}}, then global for the class selector.
C29_Witness ==
    /\ arg.f = "name" /\ Len(log) = 3
    /\ log[1].op = "css" /\ log[1].value = Str("next_2udbx6mqx")
    /\ log[2].op = "keyframes" /\ log[2].value = Str("next_2udbx6mqx")
    /\ log[3].op = "global" /\ log[3].args[1] = Str(".next_2udbx6mqx")
    /\ MapKeys(rules["A"]) = <<"class:next_2udbx6mqx", "@keyframes:next_2udbx6mqx",
                               "global:.next_2udbx6mqx">>

\* The text of a class rule for a description of scalars and one _hover
\* description of scalars: the declarations in the description's key order.
InsertionOrderRule(name, d) ==
    BareRule("." \o name, d) \o BareRule("." \o name \o ":hover", Get(d, "_hover"))

\* The keys of the scalar entries of a description, in its key order.
ScalarKeys(d) ==
    LET scalars == SelectSeq(d.o, LAMBDA e : ~IsObjectType(e.v))
    IN  [n \in 1..Len(scalars) |-> scalars[n].k]

\* C30: after css(d1) and css(d2), d2 with the keys and values of d1 in any
\* key order, the store holds one class rule, with the declarations in the key
\* order of d1; when d2 has its scalars in another order at some level, that
\* text is not the one a fresh store holds after css(d2), so what toTextCss()
\* returns depends on which order came first.
C30_FirstWriterFixesText ==
    (arg.f = "css" /\ Len(log) = 2 /\ SameContent(arg.style, arg.style2))
        => LET name == log[1].value.s
           IN  /\ rules["A"] = <<<<"class:" \o name, InsertionOrderRule(name, arg.style)>>>>
               /\ toTextCss(rules["A"]) = Str(InsertionOrderRule(name, arg.style) \o "\n")
               /\ ( \/ ScalarKeys(arg.style) # ScalarKeys(arg.style2)
                    \/ ScalarKeys(Get(arg.style, "_hover")) # ScalarKeys(Get(arg.style2, "_hover")) )
                     => /\ InsertionOrderRule(name, arg.style2) # rules["A"][1][2]
                        /\ css(Call(Prefix("A"), <<>>, <<>>, postcssCache), arg.style2).rules
                               = <<<<"class:" \o name, InsertionOrderRule(name, arg.style2)>>>>

\* margin before color and opacity before color in d1, the reverse in d2.
C30_Witness ==
    /\ arg.f = "css" /\ Len(log) = 2
    /\ arg.style = Obj(<<P("margin", Num("0")), P("color", Str("red")),
                         P("_hover", Obj(<<P("opacity", Num("0.5")), P("color", Str("blue"))>>))>>)
    /\ arg.style2 = Obj(<<P("_hover", Obj(<<P("color", Str("blue")), P("opacity", Num("0.5"))>>)),
                          P("color", Str("red")), P("margin", Num("0"))>>)
    /\ log[1].value = log[2].value
    /\ rules["A"][1][2] = "." \o log[1].value.s \o "{margin:0;color:red}"
                             \o "." \o log[1].value.s \o ":hover{opacity:0.5;color:blue}"

====
